---- MODULE Spec2Model ----
(***************************************************************************)
(* Route animation controller (useRouteAnimation.js), the marks geofence   *)
(* engine (useMarkers.js) and the popup layer (useMarkPopup.js).           *)
(*                                                                         *)
(* Times are milliseconds (performance.now()).  Every real number of the   *)
(* program (times, phases, coordinates) is an exact rational <<n, d>>,     *)
(* d > 0, in lowest terms, so that equality of two reals is equality of    *)
(* their representations and no rounding is introduced by the model.       *)
(***************************************************************************)
EXTENDS Integers, Sequences, FiniteSets, TLC

\* ------------------------------------------------------------------------
\* Exact rational arithmetic
\* ------------------------------------------------------------------------

Abs(n) == IF n < 0 THEN -n ELSE n

RECURSIVE GCD(_, _)
GCD(a, b) == IF b = 0 THEN a ELSE GCD(b, a % b)

\* n / d in lowest terms, for integers n and d # 0
Q(n, d) ==
  LET s == IF d < 0 THEN -1 ELSE 1
      g == GCD(Abs(n), Abs(d))
  IN  <<(s * n) \div g, (s * d) \div g>>

R(n) == <<n, 1>>

\* products are formed after the common factors are divided out
RMul(a, b) ==
  LET g1 == GCD(Abs(a[1]), b[2])
      g2 == GCD(Abs(b[1]), a[2])
  IN  <<(a[1] \div g1) * (b[1] \div g2), (a[2] \div g2) * (b[2] \div g1)>>
RInv(a)    == IF a[1] < 0 THEN <<-a[2], -a[1]>> ELSE <<a[2], a[1]>>
RDiv(a, b) == RMul(a, RInv(b))
RAdd(a, b) ==
  LET g == GCD(a[2], b[2])
  IN  Q(a[1] * (b[2] \div g) + b[1] * (a[2] \div g), (a[2] \div g) * b[2])
RNeg(a)    == <<-a[1], a[2]>>
RSub(a, b) == RAdd(a, RNeg(b))
RLt(a, b)  ==
  LET g == GCD(a[2], b[2])
  IN  a[1] * (b[2] \div g) < b[1] * (a[2] \div g)
RLe(a, b)  == ~RLt(b, a)
RMin(a, b) == IF RLe(a, b) THEN a ELSE b
RMax(a, b) == IF RLe(a, b) THEN b ELSE a
RAbs(a)    == <<Abs(a[1]), a[2]>>
RFloor(a)  == a[1] \div a[2]

\* ------------------------------------------------------------------------
\* Program constants
\* ------------------------------------------------------------------------

NUM_SAMPLES == 1000
PROGRESS_THROTTLE_MS == 50
RESTART_DELAY_MS == 1500

\* speedOptions = [1, 1.5, 2, 3, 5]
speedOptions == <<R(1), Q(3, 2), R(2), R(3), R(5)>>

\* the progress watcher's seek-detection tolerance, 0.002
SEEK_EPSILON == Q(2, 1000)

\* CLUSTER_THRESHOLD = 0.0005 and POPUP_THRESHOLD = 0.002 (degrees)
CLUSTER_THRESHOLD == Q(5, 10000)
POPUP_THRESHOLD == Q(2, 1000)

\* recalibrateCursor's slack: seqFraction >= phase - 0.02
RECALIBRATE_SLACK == Q(2, 100)

\* popupThreshold2 = POPUP_THRESHOLD * POPUP_THRESHOLD
popupThreshold2 == RMul(POPUP_THRESHOLD, POPUP_THRESHOLD)

\* ------------------------------------------------------------------------
\* Bounds of the model
\* ------------------------------------------------------------------------

\* performance.now() when setup(map) runs
SetupTime == 1000
\* store.duration of the loaded route, ms
duration == 3000
\* time passes in steps of TickMs, up to SetupTime + MaxTicks * TickMs
TickMs == 1500
MaxTicks == 4
\* at most this many rAF callbacks / restart timers / moveend listeners pending
MaxPending == 2
\* at most this many control calls of each kind in a run
MaxToggles == 3
MaxScrubs == 1
MaxCycles == 1

MaxTime == SetupTime + MaxTicks * TickMs

\* the interval between display refreshes in the forward-pass specification;
\* a refresh may also come a whole TickMs late (a suspended or busy page)
FineTickMs == 150

\* store.speed when setup(map) runs
InitSpeeds == {R(1), R(5)}

\* targets written to store.progress by another actor (a scrub, a reset)
SeekTargets == {Q(-1, 5), Q(1, 4), Q(7, 5)}

\* ------------------------------------------------------------------------
\* Route geometry and the coordinate sampler (setup)
\* ------------------------------------------------------------------------

\* a point given in thousandths of a degree
Pt(x, y) == <<Q(x, 1000), Q(y, 1000)>>

\* length of one segment; the routes of the model are axis-parallel, where the
\* planar length is |dx| + |dy|
SegLen(a, b) == RAdd(RAbs(RSub(b[1], a[1])), RAbs(RSub(b[2], a[2])))

RECURSIVE LineDistanceFrom(_, _)
LineDistanceFrom(line, i) ==
  IF i >= Len(line) THEN R(0)
  ELSE RAdd(SegLen(line[i], line[i + 1]), LineDistanceFrom(line, i + 1))

\* turf.lineDistance(lineFeature)
lineDistance(line) == LineDistanceFrom(line, 1)

\* a + (b - a) * frac, on both coordinates
interpolate(a, b, frac) ==
  <<RAdd(a[1], RMul(RSub(b[1], a[1]), frac)),
    RAdd(a[2], RMul(RSub(b[2], a[2]), frac))>>

\* turf.along(lineFeature, d): the point at distance d along the line; l is
\* the length of segment i
RECURSIVE AlongFrom(_, _, _)
AlongSegment(line, i, d, l) ==
  IF RLe(d, l) /\ RLt(R(0), l)
  THEN interpolate(line[i], line[i + 1], RDiv(d, l))
  ELSE AlongFrom(line, i + 1, RSub(d, l))

AlongFrom(line, i, d) ==
  IF i >= Len(line) THEN line[Len(line)]
  ELSE AlongSegment(line, i, d, SegLen(line[i], line[i + 1]))

along(line, d) == AlongFrom(line, 1, d)

\* the routes of the model
MainRoute == <<Pt(0, 0), Pt(8, 0)>>
LongRoute == <<Pt(0, 0), Pt(20, 0)>>
\* a route that doubles back: the return leg runs 0.001 degrees beside the
\* outbound leg
LoopRoute == <<Pt(0, 0), Pt(10, 0), Pt(10, 1), Pt(1, 1)>>
\* a route that crosses itself at (0.002, 0)
CrossRoute == <<Pt(0, 0), Pt(4, 0), Pt(4, 2), Pt(2, 2), Pt(2, -2)>>
\* a route of zero total distance: both coordinates are the same point
PointRoute == <<Pt(2, 0), Pt(2, 0)>>
Routes == {MainRoute, LongRoute, LoopRoute, CrossRoute, PointRoute}

\* sampledCoords[i] = along(lineFeature, (i / NUM_SAMPLES) * totalDistance),
\* for i in 0..NUM_SAMPLES
sampledCoords(line, i) ==
  along(line, RMul(Q(i, NUM_SAMPLES), lineDistance(line)))

\* the interpolation of coordAtPhase at t = clamp(phase) * NUM_SAMPLES, in
\* the sample interval idx = min(floor(t), NUM_SAMPLES - 1)
coordAtSample(line, t, idx) ==
  interpolate(sampledCoords(line, idx), sampledCoords(line, idx + 1),
              RSub(t, R(idx)))

\* an index that is not kept below the last sample
sampleIndexUnclamped(t) == RFloor(t)

\* idx = Math.min(Math.floor(t), NUM_SAMPLES - 1)
sampleIndex(t) ==
  IF RFloor(t) < NUM_SAMPLES - 1 THEN RFloor(t) ELSE NUM_SAMPLES - 1

coordAtScaled(line, t) == coordAtSample(line, t, sampleIndex(t))

\* coordAtPhase(phase): linear interpolation between the two nearest samples
coordAtPhase(line, phase) ==
  coordAtScaled(line, RMul(RMax(R(0), RMin(R(1), phase)), R(NUM_SAMPLES)))

\* ------------------------------------------------------------------------
\* Marks: classification and clustering (useMarkers setup)
\* ------------------------------------------------------------------------

\* names that start with "KM"
KmNames == {"KM1", "KM2", "KM3", "KM4"}

\* values of a feature's name property that are not strings: the property is
\* missing (undefined), null, or a number
NonStrings == {"<undefined>", "<null>", "<number>"}

\* classifyMark(name): the type key, "null" when the name is not recognised,
\* "TypeError" when name.startsWith cannot be called
classifyMark(name) ==
  IF name \in NonStrings THEN "TypeError"
  ELSE IF name \in KmNames THEN "km"
  ELSE IF name = "Agua" THEN "agua"
  ELSE IF name = "Gatorade" THEN "gatorade"
  ELSE IF name = "Gel Going" THEN "going"
  ELSE IF name = "Salida" THEN "salida"
  ELSE IF name = "Llegada" THEN "llegada"
  ELSE "null"

\* sqDist(lng1, lat1, lng2, lat2)
sqDist(p, q) ==
  LET dLng == RSub(p[1], q[1])
      dLat == RSub(p[2], q[2])
  IN  RAdd(RMul(dLng, dLng), RMul(dLat, dLat))

\* marksData.features.map(...).filter(m => m.type !== null); a feature is
\* [name, coordinates]
RECURSIVE ClassifyFrom(_, _)
ClassifyFrom(features, i) ==
  IF i > Len(features) THEN <<>>
  ELSE LET f == features[i]
           m == [idx |-> i - 1, lng |-> f.coordinates[1], lat |-> f.coordinates[2],
                 name |-> f.name, type |-> classifyMark(f.name)]
       IN  IF m.type # "null" THEN <<m>> \o ClassifyFrom(features, i + 1)
           ELSE ClassifyFrom(features, i + 1)

classifiedMarks(features) == ClassifyFrom(features, 1)

RECURSIVE SumOf(_, _, _)
SumOf(group, i, field) ==
  IF i > Len(group) THEN R(0)
  ELSE RAdd(IF field = "lng" THEN group[i].lng
            ELSE IF field = "lat" THEN group[i].lat
            ELSE R(group[i].idx),
            SumOf(group, i + 1, field))

\* finaliseCluster(group): the centroid and the member marks
finaliseCluster(group) ==
  [center |-> <<RDiv(SumOf(group, 1, "lng"), R(Len(group))),
                RDiv(SumOf(group, 1, "lat"), R(Len(group)))>>,
   marks  |-> group]

\* a loop that compares a mark with the first mark of the current group
RECURSIVE ClusterLoopAnchored(_, _, _)
ClusterLoopAnchored(marks, i, group) ==
  IF i > Len(marks) THEN <<finaliseCluster(group)>>
  ELSE LET first == group[1]
           curr  == marks[i]
       IN  IF RLt(sqDist(<<first.lng, first.lat>>, <<curr.lng, curr.lat>>),
                  RMul(CLUSTER_THRESHOLD, CLUSTER_THRESHOLD))
           THEN ClusterLoopAnchored(marks, i + 1, Append(group, curr))
           ELSE <<finaliseCluster(group)>>
                  \o ClusterLoopAnchored(marks, i + 1, <<curr>>)

\* a loop that groups with the popup's threshold
RECURSIVE ClusterLoopPopupThreshold(_, _, _)
ClusterLoopPopupThreshold(marks, i, group) ==
  IF i > Len(marks) THEN <<finaliseCluster(group)>>
  ELSE LET prev == marks[i - 1]
           curr == marks[i]
       IN  IF RLt(sqDist(<<prev.lng, prev.lat>>, <<curr.lng, curr.lat>>),
                  RMul(POPUP_THRESHOLD, POPUP_THRESHOLD))
           THEN ClusterLoopPopupThreshold(marks, i + 1, Append(group, curr))
           ELSE <<finaliseCluster(group)>>
                  \o ClusterLoopPopupThreshold(marks, i + 1, <<curr>>)

\* the loop of computeClusters from index i on, with the current group
RECURSIVE ClusterLoop(_, _, _)
ClusterLoop(marks, i, group) ==
  IF i > Len(marks) THEN <<finaliseCluster(group)>>
  ELSE LET prev == marks[i - 1]
           curr == marks[i]
       IN  IF RLt(sqDist(<<prev.lng, prev.lat>>, <<curr.lng, curr.lat>>),
                  RMul(CLUSTER_THRESHOLD, CLUSTER_THRESHOLD))
           THEN ClusterLoop(marks, i + 1, Append(group, curr))
           ELSE <<finaliseCluster(group)>> \o ClusterLoop(marks, i + 1, <<curr>>)

computeClusters(marks) ==
  IF Len(marks) = 0 THEN <<>> ELSE ClusterLoop(marks, 2, <<marks[1]>>)

\* avgIdx / lastIdx, lastIdx = marks.length - 1 || 1
seqFraction(cluster, marks) ==
  LET lastIdx == IF Len(marks) - 1 = 0 THEN 1 ELSE Len(marks) - 1
      avgIdx  == RDiv(SumOf(cluster.marks, 1, "idx"), R(Len(cluster.marks)))
  IN  RDiv(avgIdx, R(lastIdx))

\* whether useMarkers returns the no-op stubs
MarksDisabled(features) == Len(features) = 0

\* the mark collections of the model
MainMarks == << [name |-> "KM1",  coordinates |-> Pt(2, 0)],
                [name |-> "Agua", coordinates |-> Pt(6, 0)] >>
LongMarks == << [name |-> "KM1",  coordinates |-> Pt(6, 0)],
                [name |-> "Agua", coordinates |-> Pt(14, 0)] >>
\* two marks of one station share a cluster
StationMarks == << [name |-> "Salida",   coordinates |-> Pt(0, 0)],
                   [name |-> "KM1",      coordinates |-> Pt(10, 0)],
                   [name |-> "Gatorade", coordinates |-> Pt(10, 0)],
                   [name |-> "Llegada",  coordinates |-> Pt(20, 0)] >>
\* both marks lie on the return leg of LoopRoute
LoopMarks == << [name |-> "Agua",    coordinates |-> Pt(2, 1)],
               [name |-> "Llegada", coordinates |-> Pt(1, 1)] >>
MarkSets == {MainMarks, LongMarks, StationMarks, LoopMarks}

\* the route and marks a page can be loaded with
Configs == {<<MainRoute, MainMarks>>, <<LongRoute, LongMarks>>,
            <<LongRoute, StationMarks>>}

\* clusters.forEach(cluster => cluster.seqFraction = ...)
withSeqFraction(cs, marks) ==
  [i \in 1..Len(cs) |->
     [center |-> cs[i].center, marks |-> cs[i].marks,
      seqFraction |-> seqFraction(cs[i], marks)]]

\* the map over the features throws when classifyMark does
useMarkersThrows(features) ==
  \E i \in 1..Len(features) : classifyMark(features[i].name) = "TypeError"

\* the clusters useMarkers computes from the features
buildClusters(features) ==
  withSeqFraction(computeClusters(classifiedMarks(features)),
                  classifiedMarks(features))

\* the clusters useMarkers computes once at setup, per mark collection
clusterTable == [features \in MarkSets |-> buildClusters(features)]

clustersOf(features) == clusterTable[features]

\* ------------------------------------------------------------------------
\* State
\* ------------------------------------------------------------------------

\* undefined / null, and a present value
None == <<>>
Some(v) == <<v>>

VARIABLES
  now,                  \* performance.now(), an integer number of ms
  lineFeature,          \* the route's coordinates (pathData.features[0])
  marksData,            \* marksData.features: [name, coordinates] records
  progress,             \* store.progress
  isPlaying,            \* store.isPlaying
  startTime,            \* None (undefined) or Some(time)
  isPaused,
  pauseTimestamp,       \* None (null) or Some(time)
  speed,
  hasStarted,
  savedCameraState,     \* None (null) or Some(camera)
  camCenter,            \* "null" or "set"
  lastProgressTimestamp,
  internalPhase,        \* _internalPhase
  animationFrame,       \* _animationFrame: 0 (null) or the last rAF handle
  restartTimeout,       \* _restartTimeout: 0 (null) or the last timer handle
  rafQueue,             \* [id, at] of the frame callbacks still scheduled
  timerQueue,           \* [id, due] of the restart timers still pending
  moveendListeners,     \* map.once('moveend', ...) listeners, oldest first
  layers,               \* "overview" or "animation" (useMapLayers)
  display,              \* None or Some([head, gradient]): head marker and gradient
  nextClusterIdx,
  activeClusterIdx,
  wasInactive,
  popup,                \* useMarkPopup: [isVisible, currentKey]
  clusters,             \* useMarkers: the clusters computed at setup
  controls,             \* _togglePause, _seekToPhase, _setSpeed: "null" until
                        \* setup assigns them, then "set"
  thrown,               \* None, or Some(error) once a call has thrown
  calls,                \* control calls made so far: [toggle, scrub, cycle]
  commands,             \* show / hide commands the popup received in this pass
  routeData,            \* the store's route fields: [routeId, pathData, marksData,
                        \* elevationProfile, totalDistance, duration,
                        \* routeConfig, loading, error]
  loads,                \* loadRoute calls: [count, pending], pending the calls
                        \* suspended at an await
  stats,                \* usePlaybackStats: [profile, distanceKm, lo, hi, point,
                        \* pc], the elevation profile of the props and the
                        \* search findNearestPoint is making in it
  log                   \* history of the last step, read by the properties only

vars == <<now, lineFeature, marksData, progress, isPlaying, startTime, isPaused,
          pauseTimestamp, speed, hasStarted, savedCameraState, camCenter,
          lastProgressTimestamp, internalPhase, animationFrame, restartTimeout,
          rafQueue, timerQueue, moveendListeners, layers, display,
          nextClusterIdx, activeClusterIdx, wasInactive, popup, clusters, controls,
          thrown, calls, commands, routeData, loads, stats, log>>

\* the mutable state the handlers work on, as one record
St ==
  [progress |-> progress, startTime |-> startTime, isPaused |-> isPaused,
   pauseTimestamp |-> pauseTimestamp, speed |-> speed, hasStarted |-> hasStarted,
   savedCameraState |-> savedCameraState, camCenter |-> camCenter,
   lastProgressTimestamp |-> lastProgressTimestamp,
   internalPhase |-> internalPhase, animationFrame |-> animationFrame,
   restartTimeout |-> restartTimeout, rafQueue |-> rafQueue,
   timerQueue |-> timerQueue, moveendListeners |-> moveendListeners,
   layers |-> layers, display |-> display, nextClusterIdx |-> nextClusterIdx,
   activeClusterIdx |-> activeClusterIdx, wasInactive |-> wasInactive,
   popup |-> popup, commands |-> commands, log |-> log,
   cam |-> "none"]

\* the calls after which the camera is to start from the ideal pose
CameraResets == {"play", "resume", "seek", "timer"}

\* the history of the camera: the update the handler made (cam), and
\* whether the next update is the first since a start, a resume, a seek or
\* an auto-restart
CameraLog(s) ==
  [s.log EXCEPT !.camera = s.cam,
                !.fresh = IF s.cam # "none" THEN FALSE
                          ELSE (@ \/ s.log.op \in CameraResets)]

Commit(s) ==
  /\ progress' = s.progress
  /\ startTime' = s.startTime
  /\ isPaused' = s.isPaused
  /\ pauseTimestamp' = s.pauseTimestamp
  /\ speed' = s.speed
  /\ hasStarted' = s.hasStarted
  /\ savedCameraState' = s.savedCameraState
  /\ camCenter' = s.camCenter
  /\ lastProgressTimestamp' = s.lastProgressTimestamp
  /\ internalPhase' = s.internalPhase
  /\ animationFrame' = s.animationFrame
  /\ restartTimeout' = s.restartTimeout
  /\ rafQueue' = s.rafQueue
  /\ timerQueue' = s.timerQueue
  /\ moveendListeners' = s.moveendListeners
  /\ layers' = s.layers
  /\ display' = s.display
  /\ nextClusterIdx' = s.nextClusterIdx
  /\ activeClusterIdx' = s.activeClusterIdx
  /\ wasInactive' = s.wasInactive
  /\ popup' = s.popup
  /\ commands' = s.commands
  /\ log' = CameraLog(s)

\* a JavaScript value used as a number: null is 0
Num(v) == IF v = None THEN R(0) ELSE v[1]

\* !v for a time: undefined, null and 0 are falsy
Falsy(v) == v = None \/ v[1] = R(0)

\* ------------------------------------------------------------------------
\* useMarkPopup: show / hide
\* ------------------------------------------------------------------------

\* `${lngLat[0]},${lngLat[1]}`: a number prints as its value in lowest terms,
\* whatever arithmetic produced it
NumberToString(x) == Q(x[1], x[2])
popupKey(lngLat) == <<NumberToString(lngLat[1]), NumberToString(lngLat[2])>>

\* show(lngLat, marks) gets past its cache check and calls
\* popup.setLngLat(lngLat).setHTML(html)
PopupRenders(p, lngLat) ==
  ~(p.isVisible /\ p.currentKey = Some(popupKey(lngLat)))

\* a show that keeps the old cache key when it moves a visible popup
PopupShowKeepsKey(p, lngLat) ==
  IF ~PopupRenders(p, lngLat) THEN p
  ELSE [isVisible |-> TRUE,
        currentKey |-> IF p.isVisible THEN p.currentKey
                       ELSE Some(popupKey(lngLat))]

PopupShow(p, lngLat) ==
  IF ~PopupRenders(p, lngLat) THEN p
  ELSE [isVisible |-> TRUE, currentKey |-> Some(popupKey(lngLat))]

PopupHide(p) ==
  IF p.isVisible THEN [isVisible |-> FALSE, currentKey |-> None] ELSE p

\* showPopup(center, marks) / hidePopup() as the geofence engine calls them;
\* a call that changes what the popup shows is appended to the commands
showPopup(s, lngLat) ==
  [s EXCEPT !.popup = PopupShow(@, lngLat),
            !.commands = IF PopupShow(s.popup, lngLat) = s.popup THEN @
                         ELSE Append(@, [cmd |-> "show", key |-> lngLat])]

hidePopup(s) ==
  [s EXCEPT !.popup = PopupHide(@),
            !.commands = IF PopupHide(s.popup) = s.popup THEN @
                         ELSE Append(@, [cmd |-> "hide", key |-> s.popup.currentKey[1]])]

\* ------------------------------------------------------------------------
\* useMarkers: the geofence engine
\* ------------------------------------------------------------------------

\* recalibrateCursor(phase): the first cluster with seqFraction >= phase - 0.02
RECURSIVE FirstAhead(_, _, _)
FirstAhead(cs, phase, i) ==
  IF i > Len(cs) THEN Len(cs)
  ELSE IF RLe(RSub(phase, RECALIBRATE_SLACK), cs[i].seqFraction)
       THEN i - 1
       ELSE FirstAhead(cs, phase, i + 1)

recalibrateCursor(s, phase) ==
  [s EXCEPT !.nextClusterIdx = FirstAhead(clusters, phase, 1),
            !.activeClusterIdx = -1]

\* a geofence step whose hide leaves the cursor on the cluster just hidden
GeofenceStepNoAdvance(s, pos, cs) ==
  IF s.nextClusterIdx >= Len(cs) THEN s
  ELSE IF s.activeClusterIdx >= 0
  THEN IF ~RLt(sqDist(pos, cs[s.activeClusterIdx + 1].center), popupThreshold2)
       THEN [hidePopup(s) EXCEPT !.activeClusterIdx = -1]
       ELSE s
  ELSE IF RLt(sqDist(pos, cs[s.nextClusterIdx + 1].center), popupThreshold2)
       THEN [showPopup(s, cs[s.nextClusterIdx + 1].center) EXCEPT
                      !.activeClusterIdx = s.nextClusterIdx]
       ELSE s

\* a geofence step that shows a popup without recording its cluster
GeofenceStepUntracked(s, pos, cs) ==
  IF s.nextClusterIdx >= Len(cs) THEN s
  ELSE IF s.activeClusterIdx >= 0
  THEN IF ~RLt(sqDist(pos, cs[s.activeClusterIdx + 1].center), popupThreshold2)
       THEN [hidePopup(s) EXCEPT
                      !.nextClusterIdx = s.activeClusterIdx + 1,
                      !.activeClusterIdx = -1]
       ELSE s
  ELSE IF RLt(sqDist(pos, cs[s.nextClusterIdx + 1].center), popupThreshold2)
       THEN showPopup(s, cs[s.nextClusterIdx + 1].center)
       ELSE s

\* the part of updateHeadPosition after the recalibration (cluster indices
\* are 0-based as in the source; sequences are 1-based)
GeofenceStep(s, pos, cs) ==
  IF s.nextClusterIdx >= Len(cs) THEN s
  ELSE IF s.activeClusterIdx >= 0
  THEN IF ~RLt(sqDist(pos, cs[s.activeClusterIdx + 1].center), popupThreshold2)
       THEN [hidePopup(s) EXCEPT
                      !.nextClusterIdx = s.activeClusterIdx + 1,
                      !.activeClusterIdx = -1]
       ELSE s
  ELSE IF RLt(sqDist(pos, cs[s.nextClusterIdx + 1].center), popupThreshold2)
       THEN [showPopup(s, cs[s.nextClusterIdx + 1].center) EXCEPT
                      !.activeClusterIdx = s.nextClusterIdx]
       ELSE s

\* an inactive update that only marks the engine inactive
updateHeadPositionKeepsPopup(s, pos, phase, active) ==
  IF MarksDisabled(marksData) THEN s
  ELSE IF ~active
  THEN [s EXCEPT !.wasInactive = TRUE]
  ELSE GeofenceStep(IF s.wasInactive
                    THEN recalibrateCursor([s EXCEPT !.wasInactive = FALSE], phase)
                    ELSE s,
                    pos, clusters)

updateHeadPosition(s, pos, phase, active) ==
  IF MarksDisabled(marksData) THEN s
  ELSE IF ~active
  THEN LET s1 == IF s.activeClusterIdx >= 0
                 THEN [hidePopup(s) EXCEPT !.activeClusterIdx = -1]
                 ELSE s
       IN  [s1 EXCEPT !.wasInactive = TRUE]
  ELSE GeofenceStep(IF s.wasInactive
                    THEN recalibrateCursor([s EXCEPT !.wasInactive = FALSE], phase)
                    ELSE s,
                    pos, clusters)

\* a reset that leaves the cursor where it is
resetPopupKeepsCursor(s) ==
  IF MarksDisabled(marksData) THEN s
  ELSE [hidePopup(s) EXCEPT
                 !.activeClusterIdx = -1,
                 !.wasInactive = TRUE]

resetPopup(s) ==
  IF MarksDisabled(marksData) THEN s
  ELSE [hidePopup(s) EXCEPT
                 !.activeClusterIdx = -1,
                 !.nextClusterIdx = 0,
                 !.wasInactive = TRUE]

\* ------------------------------------------------------------------------
\* useRouteAnimation: scheduling primitives
\* ------------------------------------------------------------------------

\* a fresh handle: the least positive integer that names no pending callback
FreshHandle(used) == CHOOSE h \in 1..(Cardinality(used) + 1) : h \notin used

\* _animationFrame = window.requestAnimationFrame(frame)
requestFrame(s) ==
  LET h == FreshHandle({f.id : f \in s.rafQueue})
  IN  [s EXCEPT !.rafQueue = @ \cup {[id |-> h, at |-> now]}, !.animationFrame = h]

\* if (_animationFrame) cancelAnimationFrame(_animationFrame)
cancelFrame(s) ==
  IF s.animationFrame # 0
  THEN [s EXCEPT !.rafQueue = {f \in @ : f.id # s.animationFrame}]
  ELSE s

\* _restartTimeout = setTimeout(..., 1500)
setRestartTimeout(s) ==
  LET h == FreshHandle({t.id : t \in s.timerQueue})
  IN  [s EXCEPT !.timerQueue = @ \cup {[id |-> h, due |-> now + RESTART_DELAY_MS]},
                !.restartTimeout = h]

\* if (_restartTimeout) clearTimeout(_restartTimeout)
clearRestartTimeout(s) ==
  IF s.restartTimeout # 0
  THEN [s EXCEPT !.timerQueue = {t \in @ : t.id # s.restartTimeout}]
  ELSE s

\* ------------------------------------------------------------------------
\* useRouteAnimation: the clock and the display
\* ------------------------------------------------------------------------

\* (time - startTime) / (duration / speed)
clockPhase(time, start, spd) ==
  RDiv(RSub(time, start), RDiv(R(duration), spd))

\* computeCameraPosition: snaps when camCenter is null, lerps otherwise; either
\* way camCenter is set afterwards
computeCameraPosition(s) ==
  [s EXCEPT !.camCenter = "set",
            !.cam = IF s.camCenter = "null" THEN "snap" ELSE "lerp"]

\* if (moveCamera) computeCameraPosition(...)
moveCameraIf(s, moveCamera) ==
  IF moveCamera THEN computeCameraPosition(s) ELSE s

\* updateDisplay(phase, moveCamera)
updateDisplayAt(s, pos, phase, moveCamera) ==
  moveCameraIf(
    updateHeadPosition(
      [s EXCEPT !.display =
         Some([head |-> pos, gradient |-> RMax(phase, Q(1, 10000))])],
      pos, phase, ~s.isPaused),
    moveCamera)

updateDisplay(s, phase, moveCamera) ==
  updateDisplayAt(s, coordAtPhase(lineFeature, phase), phase, moveCamera)

\* a restart that forgets to clear the clock
restartCallbackKeepsClock(s) ==
  requestFrame([s EXCEPT !.internalPhase = R(0),
                         !.camCenter = "null",
                         !.progress = R(0)])

\* the end of frame: the next frame is requested, or the pass completes
nextOrComplete(s, animationPhase) ==
  IF RLt(animationPhase, R(1))
  THEN requestFrame(s)
  ELSE setRestartTimeout(resetPopup(s))

\* the restart timer's callback
restartCallback(s) ==
  requestFrame([s EXCEPT !.startTime = None,
                         !.internalPhase = R(0),
                         !.camCenter = "null",
                         !.progress = R(0)])

\* a frame that writes store.progress every time
frameAtUnthrottled(s0, time, animationPhase) ==
  LET s1 == [s0 EXCEPT !.internalPhase = animationPhase,
                       !.progress = animationPhase,
                       !.lastProgressTimestamp = time]
  IN  nextOrComplete(updateDisplay(s1, animationPhase, TRUE), animationPhase)

\* a frame that writes the phase to the store and not to _internalPhase
frameAtStalePhase(s0, time, animationPhase) ==
  LET s2 == IF \/ RLe(R(PROGRESS_THROTTLE_MS), RSub(time, s0.lastProgressTimestamp))
               \/ RLe(R(1), animationPhase)
            THEN [s0 EXCEPT !.progress = animationPhase,
                            !.lastProgressTimestamp = time]
            ELSE s0
  IN  nextOrComplete(updateDisplay(s2, animationPhase, TRUE), animationPhase)

\* frame(time) once startTime is set and the controller is not paused, with
\* the phase it computes
frameAt(s0, time, animationPhase) ==
  LET s1 == [s0 EXCEPT !.internalPhase = animationPhase]
      s2 == IF \/ RLe(R(PROGRESS_THROTTLE_MS), RSub(time, s1.lastProgressTimestamp))
               \/ RLe(R(1), animationPhase)
            THEN [s1 EXCEPT !.progress = animationPhase,
                            !.lastProgressTimestamp = time]
            ELSE s1
  IN  nextOrComplete(updateDisplay(s2, animationPhase, TRUE), animationPhase)

\* frame(time)
frame(s, time) ==
  LET s0 == IF Falsy(s.startTime) THEN [s EXCEPT !.startTime = Some(time)] ELSE s
  IN  IF s0.isPaused THEN s0
      ELSE
        frameAt(s0, time, RMin(clockPhase(time, s0.startTime[1], s0.speed), R(1)))

\* _setSpeed(newSpeed)
setSpeed(s, newSpeed, time) ==
  LET effectiveNow == IF s.isPaused THEN Num(s.pauseTimestamp) ELSE time
  IN  IF s.startTime # None
      THEN LET elapsed      == RSub(effectiveNow, s.startTime[1])
               currentPhase == RMin(RDiv(elapsed, RDiv(R(duration), s.speed)), R(1))
           IN  [s EXCEPT !.speed = newSpeed,
                         !.startTime = Some(RSub(effectiveNow,
                                          RMul(currentPhase, RDiv(R(duration), newSpeed))))]
      ELSE [s EXCEPT !.speed = newSpeed]

\* the shift both resume paths apply:
\* if (startTime !== undefined && pauseTimestamp !== null)
\*   startTime += performance.now() - pauseTimestamp
\* a resume that leaves startTime where the pause found it
resumeNoShift(s, time) == s

resumeShift(s, time) ==
  IF s.startTime # None /\ s.pauseTimestamp # None
  THEN [s EXCEPT !.startTime = Some(RAdd(s.startTime[1], RSub(time, s.pauseTimestamp[1])))]
  ELSE s

\* the 'moveend' listener registered by the first play
firstPlayMoveend(s) == requestFrame([s EXCEPT !.startTime = None])

\* the 'moveend' listener registered by a resume with a saved camera state
resumeMoveend(s, time) ==
  requestFrame([resumeShift(s, time) EXCEPT !.pauseTimestamp = None,
                                            !.savedCameraState = None])

\* a _togglePause that pauses again when asked to pause while paused
togglePauseAgain(s, playing, time) ==
  IF playing /\ ~s.hasStarted
  THEN LET s1 == [s EXCEPT !.hasStarted = TRUE, !.isPaused = FALSE,
                           !.pauseTimestamp = None]
           s2 == updateDisplay(s1, R(0), FALSE)
       IN  [s2 EXCEPT !.layers = "animation", !.camCenter = "null",
                      !.moveendListeners = Append(@, "firstPlay")]
  ELSE IF playing /\ s.isPaused
  THEN LET s1 == [s EXCEPT !.isPaused = FALSE, !.layers = "animation"]
       IN  IF s1.savedCameraState # None
           THEN [s1 EXCEPT !.camCenter = "null",
                           !.moveendListeners = Append(@, "resume")]
           ELSE requestFrame([resumeShift(s1, time) EXCEPT !.pauseTimestamp = None])
  ELSE IF ~playing
  THEN LET s1 == [s EXCEPT !.isPaused = TRUE, !.pauseTimestamp = Some(time)]
           s2 == clearRestartTimeout(cancelFrame(s1))
           s3 == [s2 EXCEPT !.savedCameraState = Some("camera"), !.layers = "overview"]
       IN  resetPopup(s3)
  ELSE s

\* _togglePause(playing)
\* a pause that leaves the popup as it is
togglePauseKeepsPopup(s, playing, time) ==
  IF playing /\ ~s.hasStarted
  THEN LET s1 == [s EXCEPT !.hasStarted = TRUE, !.isPaused = FALSE,
                           !.pauseTimestamp = None]
           s2 == updateDisplay(s1, R(0), FALSE)
       IN  [s2 EXCEPT !.layers = "animation", !.camCenter = "null",
                      !.moveendListeners = Append(@, "firstPlay")]
  ELSE IF playing /\ s.isPaused
  THEN LET s1 == [s EXCEPT !.isPaused = FALSE, !.layers = "animation"]
       IN  IF s1.savedCameraState # None
           THEN [s1 EXCEPT !.camCenter = "null",
                           !.moveendListeners = Append(@, "resume")]
           ELSE requestFrame([resumeShift(s1, time) EXCEPT !.pauseTimestamp = None])
  ELSE IF ~playing /\ ~s.isPaused
  THEN LET s1 == [s EXCEPT !.isPaused = TRUE, !.pauseTimestamp = Some(time)]
           s2 == clearRestartTimeout(cancelFrame(s1))
       IN  [s2 EXCEPT !.savedCameraState = Some("camera"), !.layers = "overview"]
  ELSE s

togglePause(s, playing, time) ==
  IF playing /\ ~s.hasStarted
  THEN \* first play
       LET s1 == [s EXCEPT !.hasStarted = TRUE, !.isPaused = FALSE,
                           !.pauseTimestamp = None]
           s2 == updateDisplay(s1, R(0), FALSE)
       IN  [s2 EXCEPT !.layers = "animation", !.camCenter = "null",
                      !.moveendListeners = Append(@, "firstPlay")]
  ELSE IF playing /\ s.isPaused
  THEN \* resume from pause
       LET s1 == [s EXCEPT !.isPaused = FALSE, !.layers = "animation"]
       IN  IF s1.savedCameraState # None
           THEN [s1 EXCEPT !.camCenter = "null",
                           !.moveendListeners = Append(@, "resume")]
           ELSE requestFrame([resumeShift(s1, time) EXCEPT !.pauseTimestamp = None])
  ELSE IF ~playing /\ ~s.isPaused
  THEN \* pause
       LET s1 == [s EXCEPT !.isPaused = TRUE, !.pauseTimestamp = Some(time)]
           s2 == clearRestartTimeout(cancelFrame(s1))
           s3 == [s2 EXCEPT !.savedCameraState = Some("camera"), !.layers = "overview"]
       IN  resetPopup(s3)
  ELSE s

\* the end of _seekToPhase: the frame loop is restarted unless paused or at
\* the end of the route
restartLoop(s, clampedPhase) ==
  IF ~s.isPaused /\ RLt(clampedPhase, R(1))
  THEN requestFrame(clearRestartTimeout(cancelFrame(s)))
  ELSE s

\* a seek that re-bases the clock at the current time even while paused
seekToPhaseAtNow(s, targetPhase, time) ==
  IF ~s.hasStarted THEN s
  ELSE
    LET clampedPhase == RMax(R(0), RMin(R(1), targetPhase))
        s1 == [s EXCEPT !.startTime = Some(RSub(time,
                                         RMul(clampedPhase, RDiv(R(duration), s.speed)))),
                        !.internalPhase = clampedPhase,
                        !.camCenter = "null"]
    IN  restartLoop(updateDisplay(s1, clampedPhase, ~s1.isPaused), clampedPhase)

\* _seekToPhase(targetPhase)
\* a seek that moves the camera whether paused or not
seekToPhaseMovesCamera(s, targetPhase, time) ==
  IF ~s.hasStarted THEN s
  ELSE
    LET clampedPhase == RMax(R(0), RMin(R(1), targetPhase))
        effectiveNow == IF s.isPaused
                        THEN (IF Falsy(s.pauseTimestamp) THEN time ELSE s.pauseTimestamp[1])
                        ELSE time
        s1 == [s EXCEPT !.startTime = Some(RSub(effectiveNow,
                                         RMul(clampedPhase, RDiv(R(duration), s.speed)))),
                        !.internalPhase = clampedPhase,
                        !.camCenter = "null"]
    IN  restartLoop(updateDisplay(s1, clampedPhase, TRUE), clampedPhase)

\* a seek that does not check hasStarted
seekToPhaseUnguarded(s, targetPhase, time) ==
  LET clampedPhase == RMax(R(0), RMin(R(1), targetPhase))
      effectiveNow == IF s.isPaused
                      THEN (IF Falsy(s.pauseTimestamp) THEN time ELSE s.pauseTimestamp[1])
                      ELSE time
      s1 == [s EXCEPT !.startTime = Some(RSub(effectiveNow,
                                       RMul(clampedPhase, RDiv(R(duration), s.speed)))),
                      !.internalPhase = clampedPhase,
                      !.camCenter = "null"]
  IN  restartLoop(updateDisplay(s1, clampedPhase, ~s1.isPaused), clampedPhase)

seekToPhase(s, targetPhase, time) ==
  IF ~s.hasStarted THEN s
  ELSE
    LET clampedPhase == RMax(R(0), RMin(R(1), targetPhase))
        effectiveNow == IF s.isPaused
                        THEN (IF Falsy(s.pauseTimestamp) THEN time ELSE s.pauseTimestamp[1])
                        ELSE time
        s1 == [s EXCEPT !.startTime = Some(RSub(effectiveNow,
                                         RMul(clampedPhase, RDiv(R(duration), s.speed)))),
                        !.internalPhase = clampedPhase,
                        !.camCenter = "null"]
    IN  restartLoop(updateDisplay(s1, clampedPhase, ~s1.isPaused), clampedPhase)

\* the progress watcher:
\* if (_seekToPhase && Math.abs(newVal - _internalPhase) > 0.002) _seekToPhase(newVal)
SeekDetected(s, newVal) == RLt(SEEK_EPSILON, RAbs(RSub(newVal, s.internalPhase)))

progressWatcher(s, newVal, time) ==
  IF SeekDetected(s, newVal) THEN seekToPhase(s, newVal, time) ELSE s

\* the progress watcher after a handler of the controller (a frame, the
\* restart timer) has run: it is called when the handler changed store.progress
ownWrite(s0, s, time) ==
  IF s.progress = s0.progress THEN s
  ELSE progressWatcher(s, s.progress, time)

\* the listeners of one 'moveend' event run in the order they were registered
RECURSIVE fireMoveend(_, _, _)
fireMoveend(s, listeners, time) ==
  IF listeners = <<>> THEN s
  ELSE fireMoveend(IF Head(listeners) = "firstPlay" THEN firstPlayMoveend(s)
                   ELSE resumeMoveend(s, time),
                   Tail(listeners), time)

\* ------------------------------------------------------------------------
\* The history the properties read.  None of it is read by a handler.
\*   op         the step just taken
\*   ran        the frame just run got past its isPaused check
\*   target     the phase the last executed seek was asked for
\*   wrote      Some(v) when the step just taken made the controller write v
\*              to store.progress
\*   ideal      the phase of a reference clock that advances only while the
\*              frame loop legitimately runs, at speed / duration
\*   running    the reference clock is advancing
\*   stage      "idle" before the first frame, "run" after a frame ran,
\*              "sped" after a setSpeed since that frame, "paused",
\*              "resumed" (resume completed, first frame not yet run),
\*              "dirty" (a seek or a restart since the last frame)
\*   pausePhase the reference phase at the pause a resume matches
\*   prevStage, prevPhase   stage and _internalPhase before the frame just run
\*   seek       Some([phase, at]) after a seek made while not paused, until
\*              the next control call
\*   anchor     None, or Some(lngLat) of the popup's last setLngLat
\*   onMap      the popup is added to the map (addTo) and not removed
\*   rendered   the show just called reached setLngLat / setHTML
\*   runRenders the renders made by the present run of consecutive shows at
\*              one anchor
\*   popupCalls the show and hide calls made so far (SpecPopup)
\*   phase      the phase the last geofence update was called with
\*   shown      the clusters shown, in order, and
\*   hidden     the clusters hidden, during the current run of consecutive
\*              active geofence updates, or by the inactive update just
\*              made (SpecGeo)
\*   wroteAt    the time of the latest frame that wrote store.progress
\*   gap        for a frame that wrote store.progress: the time since the
\*              previous frame that wrote it
\*   camera     the camera update of the step just taken: "none", "snap"
\*              (the pose is set to the ideal pose) or "lerp" (the pose
\*              moves CAM_LERP_ALPHA of the way to the ideal pose)
\*   fresh      a start, a resume, a seek or an auto-restart was made and
\*              the camera has not been updated since
\*   selfSeek   the progress watcher, run for the write the step's handler
\*              made to store.progress, called _seekToPhase
\*   elapsed    the time since the clock's start of the frame whose display
\*   duration   update was just made, and the route's duration (SpecSampler)
\* ------------------------------------------------------------------------
InitLog ==
  [op |-> "init", ran |-> FALSE, target |-> R(0), wrote |-> None,
   ideal |-> R(0), running |-> FALSE, stage |-> "idle", pausePhase |-> R(0),
   prevStage |-> "idle", prevPhase |-> R(0), seek |-> None,
   anchor |-> None, onMap |-> FALSE, rendered |-> FALSE, runRenders |-> 0,
   popupCalls |-> 0,
   phase |-> R(0), shown |-> <<>>, hidden |-> {},
   wroteAt |-> None, gap |-> None,
   elapsed |-> 0, duration |-> 0,
   camera |-> "none", fresh |-> FALSE, selfSeek |-> FALSE]

\* the fields that describe only the step just taken
Step(l, op) ==
  [l EXCEPT !.op = op, !.ran = FALSE, !.wrote = None,
            !.prevStage = "idle", !.prevPhase = R(0), !.gap = None,
            !.camera = "none", !.selfSeek = FALSE]

Clamp01(p) == RMax(R(0), RMin(R(1), p))

\* the resume just completed (its listener ran, or it had no camera to restore)
ResumeCompleted(l, s) ==
  IF s.isPaused THEN l
  ELSE [l EXCEPT !.running = (s.startTime # None),
                 !.stage = IF @ = "paused" THEN "resumed" ELSE @]

RECURSIVE ListenersLog(_, _, _, _)
ListenersLog(l, s, listeners, time) ==
  IF listeners = <<>> THEN l
  ELSE IF Head(listeners) = "firstPlay"
       THEN ListenersLog(l, firstPlayMoveend(s), Tail(listeners), time)
       ELSE LET s1 == resumeMoveend(s, time)
            IN  ListenersLog(ResumeCompleted(l, s1), s1, Tail(listeners), time)

\* the callbacks and listeners pending stay within the bound
Bounded(s) ==
  /\ Cardinality(s.rafQueue) <= MaxPending
  /\ Cardinality(s.timerQueue) <= MaxPending
  /\ Len(s.moveendListeners) <= MaxPending

\* ------------------------------------------------------------------------
\* Initial state: setupAnimation has run on the loaded map
\* ------------------------------------------------------------------------
\* the store's state(): no route requested, nothing loaded
InitRouteData ==
  [routeId |-> None, pathData |-> None, marksData |-> None,
   elevationProfile |-> None, totalDistance |-> None,
   duration |-> [of |-> "default"], routeConfig |-> None,
   loading |-> FALSE, error |-> None]

\* no elevation profile yet (the store's elevationProfile is []), no search
InitStats ==
  [profile |-> <<>>, distanceKm |-> 0, lo |-> 0, hi |-> 0, point |-> None,
   pc |-> "idle"]

InitController ==
  /\ now = SetupTime
  /\ progress = R(0)
  /\ startTime = None
  /\ isPaused = TRUE
  /\ pauseTimestamp = Some(R(SetupTime))
  /\ speed \in InitSpeeds
  /\ hasStarted = FALSE
  /\ savedCameraState = None
  /\ camCenter = "null"
  /\ lastProgressTimestamp = R(0)
  /\ internalPhase = R(0)
  /\ animationFrame = 0
  /\ restartTimeout = 0
  /\ rafQueue = {}
  /\ timerQueue = {}
  /\ moveendListeners = <<>>
  /\ layers = "overview"
  /\ display = None
  /\ nextClusterIdx = 0
  /\ activeClusterIdx = -1
  /\ wasInactive = TRUE
  /\ popup = [isVisible |-> FALSE, currentKey |-> None]
  /\ thrown = None
  /\ calls = [toggle |-> 0, scrub |-> 0, cycle |-> 0]
  /\ commands = <<>>
  /\ routeData = InitRouteData
  /\ loads = [count |-> 0, pending |-> {}]
  /\ stats = InitStats
  /\ log = InitLog

Init ==
  /\ lineFeature = MainRoute
  /\ marksData = MainMarks
  /\ clusters = clustersOf(marksData)
  /\ controls = "set"
  /\ isPlaying = FALSE
  /\ InitController

\* ------------------------------------------------------------------------
\* Actions
\* ------------------------------------------------------------------------
Fixed ==
  UNCHANGED <<lineFeature, marksData, clusters, controls, thrown, routeData, loads,
              stats>>

\* The commands are kept for one forward pass: a restart begins a new pass
\* ("new"), a pause, a resume or a seek ends the pass ("break"), and nothing
\* is kept until the next pass begins.
Broken == <<[cmd |-> "none", key |-> Pt(0, 0)]>>
Pass(s, mode) ==
  IF mode = "new" THEN [s EXCEPT !.commands = <<>>]
  ELSE IF mode = "break" \/ commands = Broken THEN [s EXCEPT !.commands = Broken]
  ELSE s

\* one more control call of a kind, within its bound
CallBound == [toggle |-> MaxToggles, scrub |-> MaxScrubs, cycle |-> MaxCycles]
Call(kind) ==
  /\ calls[kind] < CallBound[kind]
  /\ calls' = [calls EXCEPT ![kind] = @ + 1]

\* a frame callback runs at the first display refresh after it was requested
Ready(f) == f.at < now

\* wall-clock time passes, one display refresh at a time: the callbacks that
\* are due have run
TickBy(dt) ==
  /\ now + dt <= MaxTime
  /\ \A f \in rafQueue : ~Ready(f)
  /\ \A t \in timerQueue : t.due > now
  /\ now' = now + dt
  /\ log' = [Step(log, "tick") EXCEPT !.ideal =
               IF log.running
               THEN RMin(R(1), RAdd(@, RDiv(RMul(R(dt), speed), R(duration))))
               ELSE @]
  /\ UNCHANGED <<lineFeature, marksData, routeData, loads, stats, progress, isPlaying, startTime, isPaused,
                 pauseTimestamp, speed, hasStarted, savedCameraState, camCenter,
                 lastProgressTimestamp, internalPhase, animationFrame,
                 restartTimeout, rafQueue, timerQueue, moveendListeners, layers,
                 display, nextClusterIdx, activeClusterIdx, wasInactive, popup,
                 clusters, controls, thrown, calls, commands>>

Tick == TickBy(TickMs)

\* the isPlaying watcher after store.isPlaying became playing:
\* _togglePause(playing)
ToggleUpTo(playing, bound) ==
  \E s \in {togglePause(St, playing, R(now))} :
    LET op == IF playing /\ ~hasStarted THEN "play"
              ELSE IF playing /\ isPaused THEN "resume"
              ELSE IF ~playing /\ ~isPaused THEN "pause"
              ELSE "noop"
        l0 == [Step(log, op) EXCEPT !.seek = None]
        l1 == IF op = "pause"
              THEN [l0 EXCEPT !.running = FALSE,
                              !.stage = IF @ = "dirty" THEN "dirty" ELSE "paused",
                              !.pausePhase = IF log.stage = "paused" THEN @ ELSE log.ideal]
              ELSE IF op = "resume" /\ savedCameraState = None
              THEN ResumeCompleted(l0, s)
              ELSE l0
    IN  /\ calls.toggle < bound
        /\ calls' = [calls EXCEPT !.toggle = @ + 1]
        /\ Bounded(s)
        /\ isPlaying' = playing
        /\ Commit([Pass(s, IF op \in {"pause", "resume"} THEN "break" ELSE "keep")
                     EXCEPT !.log = l1])
        /\ UNCHANGED now
        /\ Fixed

Toggle(playing) == ToggleUpTo(playing, MaxToggles)

\* store.togglePlay(), then the isPlaying watcher
TogglePlay == Toggle(~isPlaying)

\* the map fires 'moveend': every listener registered with once() runs
MoveEnd ==
  /\ moveendListeners # <<>>
  /\ LET s == fireMoveend([St EXCEPT !.moveendListeners = <<>>],
                          moveendListeners, R(now))
         l == ListenersLog(Step(log, "moveend"), St, moveendListeners, R(now))
     IN  /\ Bounded(s)
         /\ Commit([Pass(s, "keep") EXCEPT !.log = l])
  /\ UNCHANGED <<now, isPlaying, calls>>
  /\ Fixed

\* the browser runs one scheduled frame callback
Frame ==
  \E h \in {f \in rafQueue : Ready(f)} :
  \E s1 \in {frame([St EXCEPT !.rafQueue = @ \ {h}], R(now))} :
  \E s \in {ownWrite(St, s1, R(now))} :
    LET l0 == [Step(log, "frame") EXCEPT
                 !.selfSeek = s1.progress # progress /\ SeekDetected(s1, s1.progress)]
        written == s.progress # progress
                     \/ s.lastProgressTimestamp # lastProgressTimestamp
        l1 == IF isPaused THEN l0
              ELSE [l0 EXCEPT !.ran = TRUE,
                              !.wroteAt = IF written THEN Some(now) ELSE @,
                              !.gap = IF written /\ log.wroteAt # None
                                      THEN Some(now - log.wroteAt[1]) ELSE None,
                              !.wrote = IF \/ RLe(R(PROGRESS_THROTTLE_MS),
                                                   RSub(R(now), lastProgressTimestamp))
                                           \/ RLe(R(1), s.internalPhase)
                                        THEN Some(s.progress) ELSE None,
                              !.prevStage = log.stage,
                              !.prevPhase = internalPhase,
                              !.ideal = IF Falsy(startTime) THEN R(0) ELSE @,
                              !.running = TRUE,
                              !.stage = "run"]
    IN  /\ Bounded(s)
        /\ Commit([Pass(s, "keep") EXCEPT !.log = l1])
        /\ UNCHANGED <<now, isPlaying, calls>>
        /\ Fixed

\* a restart timer comes due
RestartTimer ==
  \E t \in timerQueue :
    /\ t.due <= now
    /\ \E s1 \in {restartCallback([St EXCEPT !.timerQueue = @ \ {t}])} :
       \E s \in {ownWrite(St, s1, R(now))} :
       LET l == [Step(log, "timer") EXCEPT
                   !.wrote = Some(R(0)), !.ideal = R(0),
                   !.running = FALSE, !.stage = "dirty", !.seek = None,
                   !.selfSeek = s1.progress # progress
                                  /\ SeekDetected(s1, s1.progress)]
       IN  /\ Bounded(s)
           /\ Commit([Pass(s, "new") EXCEPT !.log = l])
    /\ UNCHANGED <<now, isPlaying, calls>>
    /\ Fixed

\* another actor writes store.progress; the progress watcher runs
Scrub ==
  \E v \in SeekTargets :
    /\ Call("scrub")
    /\ v # progress
    /\ \E s \in {progressWatcher([St EXCEPT !.progress = v], v, R(now))} :
       LET seen == SeekDetected(St, v) /\ hasStarted
           l    == IF seen
                   THEN [Step(log, "seek") EXCEPT
                           !.target = v, !.ideal = Clamp01(v), !.stage = "dirty",
                           !.seek = IF isPaused THEN None
                                    ELSE Some([phase |-> Clamp01(v), at |-> now])]
                   ELSE Step(log, "scrub")
       IN  /\ Bounded(s)
           /\ Commit([Pass(s, IF seen THEN "break" ELSE "keep") EXCEPT !.log = l])
    /\ UNCHANGED <<now, isPlaying>>
    /\ Fixed

\* cycleSpeed(): store.setSpeed(next of speedOptions), then the speed watcher:
\* _setSpeed(newSpeed)
speedIndex == CHOOSE i \in 1..Len(speedOptions) : speedOptions[i] = speed

CycleSpeed ==
  LET newSpeed == speedOptions[(speedIndex % Len(speedOptions)) + 1]
      s == setSpeed(St, newSpeed, R(now))
      l == [Step(log, "setSpeed") EXCEPT !.seek = None,
                                         !.stage = IF @ = "run" THEN "sped" ELSE @]
  IN  /\ Call("cycle")
      /\ Commit([Pass(s, "keep") EXCEPT !.log = l])
      /\ UNCHANGED <<now, isPlaying>>
      /\ Fixed

Next ==
  \/ Tick
  \/ TogglePlay
  \/ MoveEnd
  \/ Frame
  \/ RestartTimer
  \/ Scrub
  \/ CycleSpeed

Spec == Init /\ [][Next]_vars

\* ------------------------------------------------------------------------
\* Forward passes: the page is loaded with any of the configurations, play
\* is pressed once and the animation is left to run, pass after pass
\* ------------------------------------------------------------------------
InitFwd ==
  /\ \E c \in Configs : lineFeature = c[1] /\ marksData = c[2]
  /\ clusters = clustersOf(marksData)
  /\ controls = "set"
  /\ isPlaying = FALSE
  /\ InitController
  /\ speed = R(1)

FwdPlay == ~hasStarted /\ TogglePlay

FwdTick == \E dt \in {FineTickMs, TickMs} : TickBy(dt)

NextFwd ==
  \/ FwdPlay
  \/ MoveEnd
  \/ FwdTick
  \/ Frame
  \/ RestartTimer

SpecFwd == InitFwd /\ [][NextFwd]_vars

\* ------------------------------------------------------------------------
\* One pause / resume cycle: play, the loop runs, one pause, a wait, one
\* resume, and no other control call
\* ------------------------------------------------------------------------
PauseGapMs == 2000

CyclePause ==
  /\ calls.toggle = 1 /\ log.stage = "run" /\ RLt(internalPhase, R(1))
  /\ TogglePlay

\* the wait that follows the pause
CycleWait == log.op = "pause" /\ TickBy(PauseGapMs)

CycleResume == calls.toggle = 2 /\ isPaused /\ TogglePlay

\* display refreshes come every FineTickMs
CycleTick == TickBy(FineTickMs)

NextCycle ==
  \/ FwdPlay
  \/ MoveEnd
  \/ CycleTick
  \/ Frame
  \/ RestartTimer
  \/ CyclePause
  \/ CycleWait
  \/ CycleResume

InitCycle == Init /\ speed = R(1)

SpecCycle == InitCycle /\ [][NextCycle]_vars

\* ------------------------------------------------------------------------
\* setup(map) with any pathData, and the watchers before and after it
\* ------------------------------------------------------------------------

\* pathData.features[0] of a feature list without a LineString: undefined
NoLine == None

\* a setup that never throws
setupNeverThrows(line) == FALSE

\* setup throws before it assigns any control closure: turf.lineDistance and
\* lineFeature.geometry.coordinates dereference the line
setupThrows(line) == line = NoLine

InitSetup ==
  /\ lineFeature \in {NoLine, MainRoute}
  /\ marksData = MainMarks
  /\ clusters = <<>>
  /\ controls = "null"
  /\ isPlaying = FALSE
  /\ InitController

\* the map's 'load' handler calls setup(map)
Setup ==
  /\ controls = "null" /\ thrown = None
  /\ IF setupThrows(lineFeature)
     THEN thrown' = Some("TypeError") /\ UNCHANGED <<clusters, controls>>
     ELSE controls' = "set" /\ clusters' = clustersOf(marksData)
          /\ UNCHANGED thrown
  /\ log' = Step(log, "setup")
  /\ UNCHANGED <<now, lineFeature, marksData, routeData, loads, stats,
                 progress, isPlaying, startTime,
                 isPaused, pauseTimestamp, speed, hasStarted, savedCameraState,
                 camCenter, lastProgressTimestamp, internalPhase, animationFrame,
                 restartTimeout, rafQueue, timerQueue, moveendListeners, layers,
                 display, nextClusterIdx, activeClusterIdx, wasInactive, popup,
                 calls, commands>>

\* a watcher runs while its control closure is null: the store has changed,
\* the controller does nothing
Ignored ==
  /\ controls = "null"
  /\ \/ Call("toggle") /\ isPlaying' = ~isPlaying /\ UNCHANGED progress
     \/ Call("cycle") /\ UNCHANGED <<isPlaying, progress>>
     \/ \E v \in SeekTargets :
          Call("scrub") /\ progress' = v /\ UNCHANGED isPlaying
  /\ log' = Step(log, "ignored")
  /\ UNCHANGED <<now, lineFeature, marksData, routeData, loads, stats,
                 startTime, isPaused,
                 pauseTimestamp, speed, hasStarted, savedCameraState, camCenter,
                 lastProgressTimestamp, internalPhase, animationFrame,
                 restartTimeout, rafQueue, timerQueue, moveendListeners, layers,
                 display, nextClusterIdx, activeClusterIdx, wasInactive, popup,
                 clusters, controls, thrown, commands>>

NextSetup ==
  \/ Setup
  \/ Ignored
  \/ Tick
  \/ controls = "set" /\ TogglePlay
  \/ MoveEnd
  \/ Frame
  \/ RestartTimer

SpecSetup == InitSetup /\ [][NextSetup]_vars

\* ------------------------------------------------------------------------
\* The controller set up with a route of zero total distance
\* ------------------------------------------------------------------------
InitDegenerate ==
  /\ lineFeature = PointRoute
  /\ marksData = MainMarks
  /\ clusters = clustersOf(marksData)
  /\ controls = "set"
  /\ isPlaying = FALSE
  /\ InitController

SpecDegenerate == InitDegenerate /\ [][Next]_vars

\* ------------------------------------------------------------------------
\* Play and pause requests in any order: _togglePause called with any value,
\* whatever the controller's state
\* ------------------------------------------------------------------------
Request == \E playing \in BOOLEAN : Toggle(playing)

NextRequests ==
  \/ Tick
  \/ Request
  \/ MoveEnd
  \/ Frame
  \/ RestartTimer

SpecRequests == Init /\ [][NextRequests]_vars

\* ------------------------------------------------------------------------
\* The geofence engine on its own: useMarkers driven by any sequence of
\* updateHeadPosition and resetPopup calls, the head always on the route
\* ------------------------------------------------------------------------
MaxPhaseSteps == 20
GeoPhases == {Q(k, MaxPhaseSteps) : k \in 0..MaxPhaseSteps}
GeoConfigs == Configs \cup {<<LoopRoute, LoopMarks>>}

InitGeo ==
  /\ \E c \in GeoConfigs : lineFeature = c[1] /\ marksData = c[2]
  /\ clusters = clustersOf(marksData)
  /\ controls = "set"
  /\ isPlaying = FALSE
  /\ InitController
  /\ speed = R(1)

\* the run of active updates after the call that took s0 to s
GeoLog(l, s0, s, phase, active) ==
  IF ~active THEN [Step(l, "inactive") EXCEPT
                     !.phase = phase,
                     !.shown = <<>>,
                     !.hidden = IF s0.popup.isVisible /\ s0.activeClusterIdx >= 0
                                THEN {s0.activeClusterIdx} ELSE {}]
  ELSE LET shown  == IF s0.wasInactive THEN <<>> ELSE l.shown
           hidden == IF s0.wasInactive THEN {} ELSE l.hidden
       IN  [Step(l, "update") EXCEPT
              !.phase = phase,
              !.shown = IF s.activeClusterIdx >= 0 /\ s0.activeClusterIdx < 0
                        THEN Append(shown, s.activeClusterIdx) ELSE shown,
              !.hidden = IF s.activeClusterIdx < 0 /\ s0.activeClusterIdx >= 0
                         THEN hidden \cup {s0.activeClusterIdx} ELSE hidden]

\* updateHeadPosition(lng, lat, phase, active) as updateDisplay calls it
GeoUpdate ==
  \E phase \in GeoPhases, active \in BOOLEAN :
    \E s \in {updateHeadPosition(St, coordAtPhase(lineFeature, phase),
                                  phase, active)} :
      /\ Commit([s EXCEPT !.commands = Broken,
                          !.log = GeoLog(log, St, s, phase, active)])
      /\ UNCHANGED <<now, isPlaying, calls>>
      /\ Fixed

\* resetPopup()
GeoReset ==
  \E s \in {resetPopup(St)} :
    /\ Commit([s EXCEPT !.commands = Broken,
                        !.log = [Step(log, "reset") EXCEPT !.shown = <<>>,
                                                           !.hidden = {}]])
    /\ UNCHANGED <<now, isPlaying, calls>>
    /\ Fixed

NextGeo == GeoUpdate \/ GeoReset

SpecGeo == InitGeo /\ [][NextGeo]_vars

\* ------------------------------------------------------------------------
\* useMarkers at setup: classification and clustering of any mark collection
\* ------------------------------------------------------------------------
MaxMarks == 3
MarkNames == {"KM1", "KM3", "Agua", "Mirador", "<undefined>"}
\* the point where CrossRoute crosses itself (at 0.002 and at 0.010 of its
\* length 0.012), and another point of the route
Crossing == Pt(2, 0)
\* three points in a row east of the crossing, 0.0003, 0.0005 and 0.0006
\* from it: the stands of one station, each less than CLUSTER_THRESHOLD from
\* the next
Stand1 == <<Q(23, 10000), R(0)>>
Stand2 == <<Q(25, 10000), R(0)>>
Stand3 == <<Q(26, 10000), R(0)>>
MarkCoords == {Crossing, Pt(4, 2), Stand1, Stand2, Stand3}
Features == [name : MarkNames, coordinates : MarkCoords]
FeatureSeqs == UNION {[1..n -> Features] : n \in 0..MaxMarks}

InitMarkers ==
  /\ lineFeature = CrossRoute
  /\ marksData \in FeatureSeqs
  /\ clusters = <<>>
  /\ controls = "null"
  /\ isPlaying = FALSE
  /\ InitController
  /\ speed = R(1)

\* useMarkers(map, marksData, showMarks) up to the computation of the clusters
UseMarkers ==
  /\ log.op = "init"
  /\ IF MarksDisabled(marksData)
     THEN UNCHANGED <<clusters, thrown>>
     ELSE IF useMarkersThrows(marksData)
     THEN thrown' = Some("TypeError") /\ UNCHANGED clusters
     ELSE clusters' = buildClusters(marksData) /\ UNCHANGED thrown
  /\ log' = Step(log, "useMarkers")
  /\ UNCHANGED <<now, lineFeature, marksData, routeData, loads, stats,
                 progress, isPlaying, startTime,
                 isPaused, pauseTimestamp, speed, hasStarted, savedCameraState,
                 camCenter, lastProgressTimestamp, internalPhase, animationFrame,
                 restartTimeout, rafQueue, timerQueue, moveendListeners, layers,
                 display, nextClusterIdx, activeClusterIdx, wasInactive, popup,
                 controls, calls, commands>>

NextMarkers == UseMarkers

SpecMarkers == InitMarkers /\ [][NextMarkers]_vars

\* ------------------------------------------------------------------------
\* The popup layer on its own: useMarkPopup driven by any sequence of show
\* and hide calls
\* ------------------------------------------------------------------------
MaxPopupCalls == 8
PopupAnchors == {Pt(2, 0), Pt(6, 0), Pt(10, 0)}

\* show(lngLat, marks)
ShowCall ==
  \E lngLat \in PopupAnchors :
    /\ log.popupCalls < MaxPopupCalls
    /\ popup' = PopupShow(popup, lngLat)
    /\ log' = [Step(log, "show") EXCEPT
                 !.popupCalls = @ + 1,
                 !.rendered = PopupRenders(popup, lngLat),
                 !.anchor = IF PopupRenders(popup, lngLat) THEN Some(lngLat) ELSE @,
                 !.onMap = TRUE,
                 !.runRenders =
                    (IF log.op = "show" /\ log.anchor = Some(lngLat) THEN @ ELSE 0)
                    + (IF PopupRenders(popup, lngLat) THEN 1 ELSE 0)]
    /\ UNCHANGED <<now, lineFeature, marksData, routeData, loads, stats,
                 progress, isPlaying, startTime,
                   isPaused, pauseTimestamp, speed, hasStarted, savedCameraState,
                   camCenter, lastProgressTimestamp, internalPhase,
                   animationFrame, restartTimeout, rafQueue, timerQueue,
                   moveendListeners, layers, display, nextClusterIdx,
                   activeClusterIdx, wasInactive, clusters, controls, thrown, calls,
                   commands>>

\* hide()
HideCall ==
  /\ log.popupCalls < MaxPopupCalls
  /\ popup' = PopupHide(popup)
  /\ log' = [Step(log, "hide") EXCEPT
               !.popupCalls = @ + 1,
               !.rendered = FALSE,
               !.onMap = IF popup.isVisible THEN FALSE ELSE @,
               !.runRenders = 0]
  /\ UNCHANGED <<now, lineFeature, marksData, routeData, loads, stats,
                 progress, isPlaying, startTime,
                 isPaused, pauseTimestamp, speed, hasStarted, savedCameraState,
                 camCenter, lastProgressTimestamp, internalPhase,
                 animationFrame, restartTimeout, rafQueue, timerQueue,
                 moveendListeners, layers, display, nextClusterIdx,
                 activeClusterIdx, wasInactive, clusters, controls, thrown, calls,
                 commands>>

NextPopup == ShowCall \/ HideCall

SpecPopup == Init /\ [][NextPopup]_vars

\* ------------------------------------------------------------------------
\* Writes of store.progress: any actor may call store.setProgress(v), with
\* the value the store already holds too. The progress watcher
\* (watch(() => store.progress, ...)) is called only when the value changed.
\* ------------------------------------------------------------------------
MaxWrites == 2

progressWritten(s, v, time) ==
  IF v = s.progress THEN s
  ELSE progressWatcher([s EXCEPT !.progress = v], v, time)

StoreWrite ==
  \E v \in SeekTargets :
    /\ calls.scrub < MaxWrites
    /\ calls' = [calls EXCEPT !.scrub = @ + 1]
    /\ \E s \in {progressWritten(St, v, R(now))} :
       LET seen == v # progress /\ SeekDetected(St, v) /\ hasStarted
           l    == IF seen
                   THEN [Step(log, "seek") EXCEPT
                           !.target = v, !.ideal = Clamp01(v), !.stage = "dirty",
                           !.seek = IF isPaused THEN None
                                    ELSE Some([phase |-> Clamp01(v), at |-> now])]
                   ELSE [Step(log, "write") EXCEPT !.target = v]
       IN  /\ Bounded(s)
           /\ Commit([Pass(s, IF seen THEN "break" ELSE "keep") EXCEPT !.log = l])
    /\ UNCHANGED <<now, isPlaying>>
    /\ Fixed

\* the first play, and one pause
WritesToggle == calls.toggle < 2 /\ TogglePlay

NextWrites ==
  \/ Tick
  \/ WritesToggle
  \/ MoveEnd
  \/ Frame
  \/ RestartTimer
  \/ StoreWrite

SpecWrites == Init /\ [][NextWrites]_vars

\* ------------------------------------------------------------------------
\* Frames at the display's refresh rate: play is pressed once and a frame
\* runs every RefreshMs (or after a long stall), several of them within one
\* PROGRESS_THROTTLE_MS
\* ------------------------------------------------------------------------
RefreshMs == 30

\* time passes once play was pressed and the fly-in has ended
RefreshTick ==
  /\ hasStarted
  /\ moveendListeners = <<>>
  /\ \E dt \in {RefreshMs, TickMs} : TickBy(dt)

NextRefresh ==
  \/ FwdPlay
  \/ MoveEnd
  \/ RefreshTick
  \/ Frame
  \/ RestartTimer

SpecRefresh == Init /\ [][NextRefresh]_vars

\* ------------------------------------------------------------------------
\* The coordinate sampler on its own: updateDisplay places the head marker
\* at coordAtPhase(phase), for any phase and any route, and a frame places
\* it at the phase of its clock
\* ------------------------------------------------------------------------
MaxSampleStep == 3
SamplePhases ==
  {Q(-1, 5), Q(7, 5), Q(1, 3), Q(5, 6)}
    \cup {Q(k, NUM_SAMPLES) : k \in {0, 1, 2, 333, 500, 998, 999, 1000}}
    \cup {Q(2 * k + 1, 2 * NUM_SAMPLES) : k \in {0, 1, 499, 500, 998, 999}}
    \cup {Q(k, MaxSampleStep * NUM_SAMPLES) :
            k \in {1, MaxSampleStep * NUM_SAMPLES - 1}}

\* the durations a route is loaded with, and the times since the clock's
\* start at which a frame runs
SampleDurations == {duration, 10000}
SampleElapsed == {0, 2500, 5000, 10000, 12000}

InitSampler ==
  /\ lineFeature \in Routes
  /\ marksData = <<>>
  /\ clusters = <<>>
  /\ controls = "set"
  /\ isPlaying = FALSE
  /\ InitController

\* updateDisplay(phase, false): headMarker.setLngLat(coordAtPhase(phase))
SampleAt ==
  \E phase \in SamplePhases :
    \E s \in {updateDisplay(St, phase, FALSE)} :
      /\ Commit([s EXCEPT !.log = [Step(log, "sample") EXCEPT !.phase = phase]])
      /\ UNCHANGED <<now, isPlaying, calls>>
      /\ Fixed

\* the phase a frame computes and the head it displays:
\* Math.min((time - startTime) / (duration / speed), 1)
SampleFrame ==
  \E d \in SampleDurations, e \in SampleElapsed :
    \E phase \in {RMin(RDiv(R(e), RDiv(R(d), speed)), R(1))} :
      \E s \in {updateDisplay(St, phase, FALSE)} :
        /\ Commit([s EXCEPT !.log = [Step(log, "sampleFrame") EXCEPT
                                       !.phase = phase, !.elapsed = e,
                                       !.duration = d]])
        /\ UNCHANGED <<now, isPlaying, calls>>
        /\ Fixed

NextSampler == SampleAt \/ SampleFrame

SpecSampler == InitSampler /\ [][NextSampler]_vars

\* ------------------------------------------------------------------------
\* The camera over several pauses: play, pause and resume up to
\* MaxCameraToggles times, with one seek, at speed 1
\* ------------------------------------------------------------------------
MaxCameraToggles == 5

InitCamera == Init /\ speed = R(1)

CameraToggle == ToggleUpTo(~isPlaying, MaxCameraToggles)

NextCamera ==
  \/ Tick
  \/ CameraToggle
  \/ MoveEnd
  \/ Frame
  \/ RestartTimer
  \/ Scrub

SpecCamera == InitCamera /\ [][NextCamera]_vars

\* ------------------------------------------------------------------------
\* The store's route loading: loadRoute calls that overlap. The controller
\* is not set up (the map is not mounted), so the watchers of progress and
\* isPlaying do nothing.
\* ------------------------------------------------------------------------
MaxLoads == 3

\* ROUTE_MAP: the routes of event.json by id, a legacy one and a standard one
LegacyRoutes == {"5k"}
StandardRoutes == {"42k"}
ROUTE_MAP ==
  [r \in LegacyRoutes \cup StandardRoutes |->
     [id |-> r, legacy |-> r \in LegacyRoutes, duration |-> [of |-> r]]]

\* the ids loadRoute is called with: the known routes and one that is not in
\* ROUTE_MAP
RouteIds == DOMAIN ROUTE_MAP \cup {"unknown"}

InitLoad ==
  /\ lineFeature = MainRoute
  /\ marksData = MainMarks
  /\ clusters = <<>>
  /\ controls = "null"
  /\ isPlaying \in BOOLEAN
  /\ InitController

\* loadRoute(routeId) up to its first await: the reset, the lookup of the
\* config, and the imports it starts
loadRouteBegin(d, routeId) ==
  LET reset == [d EXCEPT !.loading = TRUE, !.error = None, !.pathData = None,
                         !.marksData = None, !.elevationProfile = None,
                         !.totalDistance = None, !.routeConfig = None,
                         !.routeId = Some(routeId)]
  IN  IF routeId \notin DOMAIN ROUTE_MAP
      THEN [reset EXCEPT !.error = Some("not found"), !.loading = FALSE]
      ELSE [reset EXCEPT !.routeConfig = Some(ROUTE_MAP[routeId])]

LoadRoute ==
  \E routeId \in RouteIds :
    /\ loads.count < MaxLoads
    /\ routeData' = loadRouteBegin(routeData, routeId)
    /\ loads' = [count |-> loads.count + 1,
                 pending |-> IF routeId \in DOMAIN ROUTE_MAP
                             THEN loads.pending
                                    \cup {[id |-> loads.count + 1,
                                           routeId |-> routeId,
                                           stage |-> "assets"]}
                             ELSE loads.pending]
    /\ progress' = R(0)
    /\ isPlaying' = FALSE
    /\ speed' = R(1)
    /\ log' = Step(log, "loadRoute")
    /\ UNCHANGED <<now, lineFeature, marksData, startTime, isPaused,
                   pauseTimestamp, hasStarted, savedCameraState, camCenter,
                   lastProgressTimestamp, internalPhase, animationFrame,
                   restartTimeout, rafQueue, timerQueue, moveendListeners,
                   layers, display, nextClusterIdx, activeClusterIdx,
                   wasInactive, popup, clusters, controls, thrown, calls,
                   commands, stats>>

\* the end of a call: this.duration = config.duration, and the finally block
loadRouteEnd(d, config) ==
  [d EXCEPT !.duration = config.duration, !.loading = FALSE]

\* the catch and the finally block
loadRouteFailed(d) ==
  [d EXCEPT !.error = Some("failed"), !.loading = FALSE]

\* the continuation of a call after Promise.all of its imports resolved
assetsLoaded(d, call) ==
  LET config == ROUTE_MAP[call.routeId]
  IN  IF config.legacy
      THEN loadRouteEnd([d EXCEPT !.pathData = Some(call.routeId),
                                  !.marksData = Some(call.routeId),
                                  !.elevationProfile = None,
                                  !.totalDistance = None],
                        config)
      ELSE [d EXCEPT !.pathData = Some(call.routeId)]

\* the continuation of a standard call after the import of its marks file
\* settled: the marks of the file, or the Point features of the GeoJSON
marksSettled(d, call) ==
  loadRouteEnd([d EXCEPT !.marksData = Some(call.routeId),
                         !.elevationProfile = Some(call.routeId),
                         !.totalDistance = Some(call.routeId)],
               ROUTE_MAP[call.routeId])

\* only the store changes when a suspended call continues
LoadStep(op) ==
  /\ log' = Step(log, op)
  /\ UNCHANGED <<now, lineFeature, marksData, progress, isPlaying, speed,
                 startTime, isPaused, pauseTimestamp, hasStarted,
                 savedCameraState, camCenter, lastProgressTimestamp,
                 internalPhase, animationFrame, restartTimeout, rafQueue,
                 timerQueue, moveendListeners, layers, display,
                 nextClusterIdx, activeClusterIdx, wasInactive, popup,
                 clusters, controls, thrown, calls, commands, stats>>

\* the imports of a call resolve
AssetsLoaded ==
  \E call \in {c \in loads.pending : c.stage = "assets"} :
    /\ routeData' = assetsLoaded(routeData, call)
    /\ loads' = [loads EXCEPT !.pending =
                   (@ \ {call})
                     \cup (IF ROUTE_MAP[call.routeId].legacy THEN {}
                           ELSE {[call EXCEPT !.stage = "marks"]})]
    /\ LoadStep("assetsLoaded")

\* an import of a call is rejected
AssetsFailed ==
  \E call \in {c \in loads.pending : c.stage = "assets"} :
    /\ routeData' = loadRouteFailed(routeData)
    /\ loads' = [loads EXCEPT !.pending = @ \ {call}]
    /\ LoadStep("assetsFailed")

\* the import of the marks file of a standard call settles
MarksSettled ==
  \E call \in {c \in loads.pending : c.stage = "marks"} :
    /\ routeData' = marksSettled(routeData, call)
    /\ loads' = [loads EXCEPT !.pending = @ \ {call}]
    /\ LoadStep("marksSettled")

NextLoad == LoadRoute \/ AssetsLoaded \/ AssetsFailed \/ MarksSettled

SpecLoad == InitLoad /\ [][NextLoad]_vars

\* ------------------------------------------------------------------------
\* usePlaybackStats: findNearestPoint, one iteration of its loop at a time,
\* on the elevation profiles the props can hold. Distances are whole numbers
\* of half kilometres, so that a target can fall between two points.
\* ------------------------------------------------------------------------
MaxProfile == 3
MaxDistance == 6

\* the rows of a parsed elevation profile, by cumulative distance
ProfilePoints == {[distance_km_cum |-> d] : d \in {0, 2, 4, 6}}

\* the profiles are sorted by cumulative distance
SortedProfiles ==
  {pr \in UNION {[1..n -> ProfilePoints] : n \in 0..MaxProfile} :
     \A i \in 1..(Len(pr) - 1) :
       pr[i].distance_km_cum <= pr[i + 1].distance_km_cum}

\* progress * totalDistance, and targets outside the profile
TargetDistances == (0 - 1)..(MaxDistance + 1)

InitProfile ==
  /\ lineFeature = MainRoute
  /\ marksData = MainMarks
  /\ clusters = <<>>
  /\ controls = "null"
  /\ isPlaying = FALSE
  /\ InitController
  /\ speed = R(1)

\* only the statistics change
StatsStep(op) ==
  /\ log' = Step(log, op)
  /\ UNCHANGED <<now, lineFeature, marksData, progress, isPlaying, speed,
                 startTime, isPaused, pauseTimestamp, hasStarted,
                 savedCameraState, camCenter, lastProgressTimestamp,
                 internalPhase, animationFrame, restartTimeout, rafQueue,
                 timerQueue, moveendListeners, layers, display,
                 nextClusterIdx, activeClusterIdx, wasInactive, popup,
                 clusters, controls, thrown, calls, commands, routeData,
                 loads>>

\* props.elevationProfile is replaced while no search is running
ProfileLoaded ==
  \E pr \in SortedProfiles :
    /\ stats.pc \in {"idle", "done"}
    /\ pr # stats.profile
    /\ stats' = [InitStats EXCEPT !.profile = pr]
    /\ StatsStep("profile")

\* findNearestPoint(profile, distanceKm) up to its loop: null for an empty
\* profile, else lo = 0 and hi = profile.length - 1
findNearestPointBegin(st, distanceKm) ==
  IF Len(st.profile) = 0
  THEN [st EXCEPT !.distanceKm = distanceKm, !.point = None, !.pc = "done"]
  ELSE [st EXCEPT !.distanceKm = distanceKm, !.lo = 0,
                  !.hi = Len(st.profile) - 1, !.point = None, !.pc = "loop"]

FindNearestPoint ==
  \E distanceKm \in TargetDistances :
    /\ stats.pc \in {"idle", "done"}
    /\ stats' = findNearestPointBegin(stats, distanceKm)
    /\ StatsStep("find")

\* one iteration of while (lo < hi): mid = (lo + hi) >> 1 (indices are
\* 0-based as in the source; sequences are 1-based)
searchStep(st) ==
  LET mid == (st.lo + st.hi) \div 2
  IN  IF st.profile[mid + 1].distance_km_cum < st.distanceKm
      THEN [st EXCEPT !.lo = mid + 1]
      ELSE [st EXCEPT !.hi = mid]

SearchStep ==
  /\ stats.pc = "loop"
  /\ stats.lo < stats.hi
  /\ \E st \in {searchStep(stats)} : stats' = st
  /\ StatsStep("probe")

\* return profile[lo]
SearchReturn ==
  /\ stats.pc = "loop"
  /\ ~(stats.lo < stats.hi)
  /\ stats' = [stats EXCEPT !.point = Some(stats.profile[stats.lo + 1]),
                            !.pc = "done"]
  /\ StatsStep("return")

NextProfile == ProfileLoaded \/ FindNearestPoint \/ SearchStep \/ SearchReturn

SpecProfile == InitProfile /\ [][NextProfile]_vars

\* ------------------------------------------------------------------------
\* Properties
\* ------------------------------------------------------------------------

\* a frame has just run past its isPaused check
FrameRan == log.op = "frame" /\ log.ran

\* C1: the first frame that runs after a resume computes the phase the clock
\* had at the matching pause, up to the time the loop has legitimately run
\* since the resume completed: never less than the phase at the pause, never
\* more than that phase plus the time run since the resume.  Time spent
\* paused or in a camera fly-to neither advances nor rewinds the phase.
\* Stated for the runs without any seek.
C1_ResumePreservesPhase ==
  (FrameRan /\ log.prevStage = "resumed" /\ calls.scrub = 0)
    => /\ RLe(log.pausePhase, internalPhase)
       /\ RLe(internalPhase, log.ideal)

InUnit(p) == RLe(R(0), p) /\ RLe(p, R(1))

\* a resume has been requested and its fly-back 'moveend' has not fired
ResumePending ==
  /\ ~isPaused
  /\ \E i \in 1..Len(moveendListeners) : moveendListeners[i] = "resume"

\* the instant the clock stands at: the pause instant while the clock is
\* frozen (paused, or resumed with the shift still to come), else now
ClockInstant ==
  IF (isPaused \/ ResumePending) /\ pauseTimestamp # None
  THEN pauseTimestamp[1] ELSE R(now)

\* the phase the clock holds, once started
CurrentPhase == RMin(R(1), clockPhase(ClockInstant, startTime[1], speed))

\* C2: once the clock has been started, in Playing, Paused, between a resume
\* request and its 'moveend', and Completed, a speed change leaves the current
\* phase unchanged; before the clock has been started it only records the new
\* speed.  Stated for the runs without any seek, from the states whose current
\* phase is in [0, 1].
C2_SetSpeedKeepsPhase ==
  [][(log'.op = "setSpeed" /\ calls.scrub = 0) =>
       IF startTime = None
       THEN startTime' = None /\ speed' # speed
       ELSE ((isPaused => pauseTimestamp # None) /\ InUnit(CurrentPhase))
              => CurrentPhase' = CurrentPhase]_vars

\* C3: after the start, a seek sets the internal phase to exactly the target
\* clamped to [0, 1], and re-bases startTime so that the clock formula at the
\* same instant (the pause instant when paused) yields that phase at the
\* current speed.
C3_SeekSetsPhase ==
  log.op = "seek" =>
    /\ internalPhase = Clamp01(log.target)
    /\ startTime # None
    /\ clockPhase(IF isPaused /\ pauseTimestamp # None THEN pauseTimestamp[1]
                  ELSE R(now),
                  startTime[1], speed) = internalPhase

\* C3 happens: a seek below 0 made while paused, some time after the pause
C3_Witness ==
  /\ log.op = "seek"
  /\ isPaused
  /\ RLt(log.target, R(0))
  /\ pauseTimestamp # None
  /\ RLt(pauseTimestamp[1], R(now))
  /\ speed # R(1)

\* C4: at most one frame callback is scheduled and at most one restart timer
\* is pending, and never both at once.
C4_SingleCallback == Cardinality(rafQueue) + Cardinality(timerQueue) <= 1

\* C5: the internal phase (every phase a frame computes is stored in it) and
\* every value the controller writes to store.progress lie in [0, 1].
C5_PhaseInUnit ==
  /\ InUnit(internalPhase)
  /\ log.wrote # None => InUnit(log.wrote[1])

\* C6: while playing, with no seek and no restart since the previous frame,
\* a frame computes a phase no smaller than the previous frame did, whatever
\* speed changes were made in between.
C6_FramesNonDecreasing ==
  (FrameRan /\ log.prevStage \in {"run", "sped"})
    => RLe(log.prevPhase, internalPhase)

\* C7: after a seek made while started and not paused, and until the next
\* control call (or restart), every frame that runs computes the clamped
\* target plus the time elapsed since the seek over duration / speed
\* (at most 1).
C7_FramesFollowSeek ==
  (FrameRan /\ log.seek # None)
    => internalPhase =
         RMin(R(1), RAdd(log.seek[1].phase,
                         clockPhase(R(now), R(log.seek[1].at), speed)))

\* the frame just run computed phase 1
Completing == FrameRan /\ internalPhase = R(1)

\* C8, the completing frame: progress 1 written, popup hidden, geofence
\* cursor reset
C8_CompletionState ==
  Completing =>
    /\ progress = R(1)
    /\ log.wrote = Some(R(1))
    /\ ~popup.isVisible
    /\ nextClusterIdx = 0 /\ activeClusterIdx = -1 /\ wasInactive

\* C8, the completing frame schedules no frame and arms the restart timer
\* RESTART_DELAY_MS ahead
C8_CompletionStep ==
  (log'.op = "frame" /\ log'.ran /\ internalPhase' = R(1))
    => /\ rafQueue' \subseteq rafQueue
       /\ \E t \in timerQueue' \ timerQueue : t.due = now + RESTART_DELAY_MS

\* C8, the restart: the clock is cleared, internal phase and progress are 0,
\* a frame is scheduled
C8_RestartState ==
  log.op = "timer" =>
    /\ startTime = None
    /\ internalPhase = R(0)
    /\ progress = R(0)
    /\ log.wrote = Some(R(0))
    /\ \E f \in rafQueue : f.at = now

\* C8, a pending restart timer goes away only by firing, once due and within
\* one refresh, or by a pause or a seek
C8_TimerStep ==
  \A t \in timerQueue \ timerQueue' :
    \/ log'.op = "timer" /\ t.due <= now /\ now < t.due + TickMs
    \/ log'.op \in {"pause", "seek"}

\* C8, a playing controller is never left with nothing scheduled
C8_NeverStopped ==
  (hasStarted /\ ~isPaused /\ rafQueue = {} /\ moveendListeners = <<>>)
    => timerQueue # {}

\* C8: a frame that computes phase 1 writes progress 1, hides the popup,
\* resets the geofence cursor and schedules no frame; unless a pause or a seek
\* intervenes the restart timer fires 1500 ms later, clears the clock, sets
\* internal phase and progress to 0 and restarts the frame loop; a playing
\* animation never stays stopped at phase 1.
C8_CompletionRestarts ==
  /\ []C8_CompletionState
  /\ []C8_RestartState
  /\ []C8_NeverStopped
  /\ [][C8_CompletionStep]_vars
  /\ [][C8_TimerStep]_vars

\* C8 happens: an unattended run completes, restarts after the delay and
\* runs its first frame from phase 0
C8_Witness ==
  /\ FrameRan
  /\ log.prevStage = "dirty"
  /\ internalPhase = R(0)
  /\ calls = [toggle |-> 1, scrub |-> 0, cycle |-> 0]

\* C9: while paused, no frame callback and no restart-timer callback that
\* still runs changes startTime, the internal phase, store.progress or the
\* display; the pause itself leaves the callbacks it holds handles of
\* cancelled.
C9_PausedClockFrozen ==
  /\ [][(isPaused /\ log'.op \in {"frame", "timer"})
          => /\ startTime' = startTime
             /\ internalPhase' = internalPhase
             /\ progress' = progress
             /\ display' = display]_vars
  /\ [](log.op = "pause" =>
          /\ \A f \in rafQueue : f.id # animationFrame
          /\ \A t \in timerQueue : t.id # restartTimeout)

\* the commands of a pass that shows and hides each cluster once, in route
\* order
ExpectedCommands(cs) ==
  [i \in 1..(2 * Len(cs)) |->
     [cmd |-> IF i % 2 = 1 THEN "show" ELSE "hide",
      key |-> cs[(i + 1) \div 2].center]]

\* C10: when a forward pass completes (the frame that computes phase 1 has
\* run, its completion reset included) without a pause or a seek since the
\* pass began, the popup has received exactly one show and one hide for each
\* cluster, in route order.
C10_EachClusterShownOnce ==
  (Completing /\ commands # Broken /\ ~MarksDisabled(marksData))
    => commands = ExpectedCommands(clustersOf(marksData))

RECURSIVE StrictlyIncreasing(_)
StrictlyIncreasing(seq) ==
  Len(seq) < 2 \/ (seq[1] < seq[2] /\ StrictlyIncreasing(Tail(seq)))

\* C11: during a run of consecutive active geofence updates (no recalibration
\* or reset in between) nextClusterIdx never decreases, the popups appear in
\* strictly increasing cluster order, and a cluster whose popup was hidden
\* is not shown again.
C11_CursorOnlyForward ==
  /\ [](StrictlyIncreasing(log.shown))
  /\ [](activeClusterIdx >= 0 => activeClusterIdx \notin log.hidden)
  /\ [][(~wasInactive /\ ~wasInactive') => nextClusterIdx' >= nextClusterIdx]_vars

\* the head is back at a cluster that was hidden earlier in the same run,
\* after a later cluster was shown
C11_Witness ==
  /\ ~wasInactive
  /\ Len(log.shown) >= 2
  /\ \E k \in log.hidden :
       /\ k < log.shown[Len(log.shown)]
       /\ coordAtPhase(lineFeature, log.phase) = clustersOf(marksData)[k + 1].center

\* the phase at which the head is at point p of the route
RouteFraction(line, p) == CHOOSE q \in GeoPhases : coordAtPhase(line, q) = p

\* the head, at phase, has left cluster c behind: it is past the cluster's
\* position by the popup threshold or more, measured along the route
Passed(line, c, phase) ==
  RLe(POPUP_THRESHOLD,
      RMul(RSub(phase, RouteFraction(line, c.center)), lineDistance(line)))

\* the cursor designates the first cluster at or ahead of the head: no cluster
\* before it lies ahead of the head, and the head has not passed its cluster
CursorAtHead(line, cs, phase) ==
  /\ \A k \in 1..nextClusterIdx :
       ~RLt(phase, RouteFraction(line, cs[k].center))
  /\ nextClusterIdx < Len(cs)
       => ~Passed(line, cs[nextClusterIdx + 1], phase)

\* C12: after a seek, and in the first frame after a resume, the geofence
\* evaluation works with a cursor that designates the first cluster at or
\* ahead of the head.
C12_CursorRederived ==
  (/\ ~wasInactive
   /\ ~MarksDisabled(marksData)
   /\ log.op = "seek" \/ (FrameRan /\ log.prevStage = "resumed"))
    => CursorAtHead(lineFeature, clustersOf(marksData), internalPhase)

\* the head, at phase, is at cluster c's position along the route: less than
\* the popup threshold away from it, measured along the route
AtCluster(line, c, phase) ==
  RLt(RMul(RAbs(RSub(phase, RouteFraction(line, c.center))), lineDistance(line)),
      POPUP_THRESHOLD)

\* C13: a cluster's popup is visible only while the head is at the cluster's
\* position along the route.
C13_ShownOnlyAtRoutePosition ==
  (log.op = "update" /\ activeClusterIdx >= 0)
    => /\ popup.isVisible
       /\ AtCluster(lineFeature, clustersOf(marksData)[activeClusterIdx + 1],
                    log.phase)

\* the original indices of the marks of cluster c
MemberIdx(c) == {c.marks[m].idx : m \in 1..Len(c.marks)}

\* C14: two marks at the point where the route crosses itself, at different
\* route positions (the markers of two different kilometres), end up in two
\* distinct clusters,
\* whatever lies between them in the mark sequence.
C14_CrossingMarksApart ==
  (log.op = "useMarkers" /\ thrown = None)
    => \A i, j \in 1..Len(marksData) :
         (/\ i < j
          /\ marksData[i].name \in KmNames /\ marksData[j].name \in KmNames
          /\ marksData[i].name # marksData[j].name
          /\ marksData[i].coordinates = Crossing
          /\ marksData[j].coordinates = Crossing)
           => ~\E k \in 1..Len(clusters) : {i - 1, j - 1} \subseteq MemberIdx(clusters[k])

\* C15: a show renders exactly when the popup is off the map or on the map at
\* another anchor; a run of consecutive shows at one anchor renders once;
\* a hide takes the popup off the map and clears visibility and the key, and
\* does nothing to a hidden popup.
C15_ShowRendersOnChange ==
  /\ [][log'.op = "show"
          => \E a \in PopupAnchors :
               /\ popup'.currentKey = Some(popupKey(a))
               /\ log'.anchor = Some(a)
               /\ log'.rendered <=> (~log.onMap \/ log.anchor # Some(a))]_vars
  /\ [](log.op = "show" => log.runRenders = 1 /\ log.onMap /\ popup.isVisible)
  /\ [](log.op = "hide" => ~log.onMap /\ ~popup.isVisible /\ popup.currentKey = None)
  /\ [][(log'.op = "hide" /\ ~popup.isVisible) => popup' = popup]_vars

\* after several calls, a show repeated at the anchor of a visible popup,
\* which does not render
C15_Witness ==
  /\ log.op = "show"
  /\ log.popupCalls >= 3
  /\ ~log.rendered

\* C16: before the first play a write to store.progress, whatever the target,
\* changes nothing but store.progress: the clock, the internal phase, the
\* camera, the display, the geofence and popup state and the scheduled
\* callbacks stay as they were, and nothing is thrown.
C16_SeekBeforePlayNoOp ==
  [][(~hasStarted /\ log'.op \in {"scrub", "seek"})
       => /\ UNCHANGED <<startTime, pauseTimestamp, isPaused, hasStarted,
                         internalPhase, lastProgressTimestamp,
                         savedCameraState, camCenter, layers, display,
                         nextClusterIdx, activeClusterIdx, wasInactive, popup,
                         animationFrame, restartTimeout, rafQueue, timerQueue,
                         moveendListeners>>
          /\ thrown' = None]_vars

\* store.progress has been set outside [0, 1] before the first play
C16_Witness ==
  /\ ~hasStarted
  /\ log.op = "scrub"
  /\ progress = Q(7, 5)

\* the request just made asked for the state the controller was already in
Redundant ==
  /\ log'.op \in {"play", "resume", "pause", "noop"}
  /\ \/ isPlaying' /\ hasStarted /\ ~isPaused
     \/ ~isPlaying' /\ isPaused

\* C17: a play request while Playing (a fly-to pending or not) and a pause
\* request while Paused or before the first play change no controller state,
\* schedule nothing, cancel nothing and throw nothing.
C17_RedundantRequestNoOp ==
  [][Redundant
       => /\ UNCHANGED <<progress, startTime, isPaused, pauseTimestamp, speed,
                         hasStarted, savedCameraState, camCenter,
                         lastProgressTimestamp, internalPhase, animationFrame,
                         restartTimeout, rafQueue, timerQueue, moveendListeners,
                         layers, display, nextClusterIdx, activeClusterIdx,
                         wasInactive, popup>>
          /\ thrown' = None]_vars

\* a play request arrived while Playing with the fly-to still pending
C17_Witness ==
  /\ log.op = "noop"
  /\ isPlaying /\ hasStarted /\ ~isPaused
  /\ moveendListeners # <<>>

\* a pause request arrived while Paused or before the first play
C17_WitnessPause ==
  /\ log.op = "noop"
  /\ ~isPlaying /\ isPaused

\* C18: with a route of zero total distance the animation is disabled: the
\* phase stays 0 and no frame is ever scheduled, whatever is requested.
C18_DegeneratePinned ==
  lineDistance(lineFeature) = R(0)
    => /\ internalPhase = R(0)
       /\ progress = R(0) \/ log.op \in {"scrub", "seek"}
       /\ rafQueue = {}

\* C19: setup given a pathData without a LineString throws to its caller and
\* assigns no control closure; from then on the controller never plays: no
\* play, seek or setSpeed request starts it, schedules a callback or moves
\* the head.
C19_NoGeometryNeverPlays ==
  /\ [][(log'.op = "setup" /\ lineFeature = NoLine)
          => thrown' # None /\ controls' = "null"]_vars
  /\ [](lineFeature = NoLine
          => /\ ~hasStarted /\ isPaused /\ startTime = None
             /\ internalPhase = R(0)
             /\ rafQueue = {} /\ timerQueue = {} /\ moveendListeners = <<>>
             /\ display = None /\ layers = "overview")

\* after the failed setup play was requested and store.progress was moved
C19_Witness ==
  /\ lineFeature = NoLine
  /\ thrown # None
  /\ isPlaying
  /\ progress # R(0)
  /\ log.op = "ignored"

\* the closed set of categories
Categories == {"km", "agua", "gatorade", "going", "salida", "llegada"}

\* every mark of every cluster has a category of the closed set
ClusteredMarksClassified ==
  \A k \in 1..Len(clusters) :
    \A m \in 1..Len(clusters[k].marks) : clusters[k].marks[m].type \in Categories

\* C20: useMarkers throws nothing whatever the features' name properties
\* hold, every mark that reaches a cluster has a category of the closed set,
\* and no feature with an unrecognised name is a member of a cluster.
C20_UnrecognisedDropped ==
  log.op = "useMarkers"
    => /\ thrown = None
       /\ ClusteredMarksClassified
       /\ \A i \in 1..Len(marksData) :
            marksData[i].name \in {"Mirador"} \cup NonStrings
              => \A k \in 1..Len(clusters) : (i - 1) \notin MemberIdx(clusters[k])

\* C21: in a single pause / resume cycle the first frame after the resume
\* computes the phase the clock had at the pause plus the time the loop has
\* run since the fly-back completed (at most one frame), whatever time was
\* spent paused and in the fly-back.
C21_CycleKeepsPhase ==
  (FrameRan /\ log.prevStage = "resumed")
    => /\ RLe(log.pausePhase, internalPhase)
       /\ RLe(internalPhase, log.ideal)
       /\ RLe(RSub(log.ideal, log.pausePhase), Q(FineTickMs, duration))

\* paused at phase 0.3, 2000 ms spent paused, the first frame 150 ms after the
\* fly-back completed: phase 0.35 at t = 1000 + 150 + 900 + 2000 + 150
C21_Witness ==
  /\ FrameRan /\ log.prevStage = "resumed"
  /\ log.pausePhase = Q(3, 10)
  /\ internalPhase = Q(7, 20)
  /\ now = SetupTime + 2 * FineTickMs + 900 + PauseGapMs

\* C22: a seek made while paused puts the head marker and the gradient at
\* the clamped target, does not move the camera, shows no popup, schedules
\* and cancels nothing, leaves the controller paused and keeps the camera
\* state saved for the fly-back.
C22_PausedSeekRefreshesOnly ==
  [][(log'.op = "seek" /\ isPaused)
       => /\ display' = Some([head |-> coordAtPhase(lineFeature, Clamp01(log'.target)),
                              gradient |-> RMax(Clamp01(log'.target), Q(1, 10000))])
          /\ camCenter' = "null"
          /\ ~popup'.isVisible
          /\ isPaused'
          /\ UNCHANGED <<savedCameraState, rafQueue, timerQueue, animationFrame,
                         restartTimeout, moveendListeners, layers>>]_vars

\* a seek to 0.25 was made while paused, the camera state of the pause saved
C22_Witness ==
  /\ log.op = "seek"
  /\ isPaused /\ hasStarted
  /\ savedCameraState # None
  /\ internalPhase = Q(1, 4)

\* a write of store.progress was just made, the animation having started
WriteMade == calls'.scrub # calls.scrub /\ hasStarted

\* C23: after the animation has started, a write of store.progress = v more
\* than 0.002 away from the internal phase makes the controller seek to
\* clamp(v, 0, 1) at once (no frame runs in between); a write within 0.002
\* of the internal phase leaves the clock and the phase unchanged.
C23_WriteSeeks ==
  [][WriteMade =>
       IF SeekDetected(St, log'.target)
       THEN /\ internalPhase' = Clamp01(log'.target)
            /\ startTime' # None =>
                 clockPhase(IF isPaused' /\ pauseTimestamp' # None
                            THEN pauseTimestamp'[1] ELSE R(now'),
                            startTime'[1], speed') = internalPhase'
       ELSE UNCHANGED <<startTime, internalPhase>>]_vars

\* the same, for the writes that change the value the store holds
C23_ChangeSeeks ==
  [][(WriteMade /\ log'.target # progress) =>
       IF SeekDetected(St, log'.target)
       THEN /\ internalPhase' = Clamp01(log'.target)
            /\ startTime' # None =>
                 clockPhase(IF isPaused' /\ pauseTimestamp' # None
                            THEN pauseTimestamp'[1] ELSE R(now'),
                            startTime'[1], speed') = internalPhase'
       ELSE UNCHANGED <<startTime, internalPhase>>]_vars

C24_WitnessCompletion ==
  /\ FrameRan
  /\ internalPhase = R(1)
  /\ log.gap = Some(RefreshMs)

\* the head, at pos, is inside the trigger region of cluster c
InRegion(pos, c) == RLt(sqDist(pos, c.center), popupThreshold2)

\* the clusters at or after the cursor whose trigger region holds the head
\* (0-based, as the cursor)
Triggered(cs, cursor, pos) ==
  {k \in cursor..(Len(cs) - 1) : InRegion(pos, cs[k + 1])}

\* an active update is made with no popup visible and no recalibration due
QuietUpdate ==
  /\ log'.op = "update"
  /\ ~wasInactive
  /\ activeClusterIdx < 0
  /\ ~popup.isVisible

\* C25: on an active update made with no popup visible, if the head is inside
\* the trigger region of one or more clusters at or after the cursor, the
\* first of them is shown by that update and the cursor is parked on it.
C25_FirstTriggeredShown ==
  [][(QuietUpdate
        /\ Triggered(clusters, nextClusterIdx,
                     coordAtPhase(lineFeature, log'.phase)) # {})
       => LET hit == Triggered(clusters, nextClusterIdx,
                               coordAtPhase(lineFeature, log'.phase))
              first == CHOOSE k \in hit : \A j \in hit : k <= j
          IN  /\ popup'.isVisible
              /\ popup'.currentKey = Some(popupKey(clusters[first + 1].center))
              /\ activeClusterIdx' = first
              /\ nextClusterIdx' = first]_vars

\* the same, when the cluster at the cursor is one of them
C25_CursorClusterShown ==
  [][(QuietUpdate
        /\ nextClusterIdx \in Triggered(clusters, nextClusterIdx,
                                        coordAtPhase(lineFeature, log'.phase)))
       => /\ popup'.isVisible
          /\ popup'.currentKey = Some(popupKey(clusters[nextClusterIdx + 1].center))
          /\ activeClusterIdx' = nextClusterIdx
          /\ nextClusterIdx' = nextClusterIdx]_vars

\* C26: an update made with active = false leaves no popup visible and no
\* active cluster, marks the engine inactive and leaves nextClusterIdx as it
\* was; it shows nothing.
C26_InactiveUpdateHides ==
  [][log'.op = "inactive"
       => /\ ~popup'.isVisible
          /\ popup'.currentKey = None
          /\ activeClusterIdx' = -1
          /\ wasInactive'
          /\ nextClusterIdx' = nextClusterIdx]_vars

\* C26 happens: an inactive update hid the popup of the second cluster, the
\* cursor on it
C26_Witness ==
  /\ log.op = "inactive"
  /\ log.hidden = {1}
  /\ nextClusterIdx = 1

\* the state resetPopup leaves
PopupReset ==
  /\ ~popup.isVisible
  /\ activeClusterIdx = -1
  /\ nextClusterIdx = 0
  /\ wasInactive

\* C27: the completing frame and every pause leave the state resetPopup
\* makes: no popup visible, no active cluster, the cursor on 0 and the engine
\* inactive; and the update that makes the engine active again sets the
\* cursor from the phase it is given (recalibrateCursor).
C27_ResetThenRecalibrate ==
  /\ []((Completing \/ log.op = "pause") => PopupReset)
  /\ [][(wasInactive /\ ~wasInactive')
          => /\ nextClusterIdx' = FirstAhead(clusters, internalPhase', 1)
             /\ activeClusterIdx' \in {-1, nextClusterIdx'}]_vars

\* C27 happens: the first frame after a pause and its resume ran with the
\* cursor recalibrated past the first cluster
C27_Witness ==
  /\ FrameRan
  /\ log.prevStage = "resumed"
  /\ ~wasInactive
  /\ nextClusterIdx = 1
  /\ RLt(R(0), internalPhase)

\* the marks of the clusters cs, one after the other
RECURSIVE Concatenated(_, _)
Concatenated(cs, k) ==
  IF k > Len(cs) THEN <<>> ELSE cs[k].marks \o Concatenated(cs, k + 1)

\* mark i of the sequence ms is the first mark of one of the clusters cs
StartsCluster(cs, ms, i) == \E k \in 1..Len(cs) : cs[k].marks[1] = ms[i]

Apart(m, n) ==
  RLe(RMul(CLUSTER_THRESHOLD, CLUSTER_THRESHOLD),
      sqDist(<<m.lng, m.lat>>, <<n.lng, n.lat>>))

\* useMarkers has computed the clusters of the marks it classified
Clustered == log.op = "useMarkers" /\ thrown = None /\ ~MarksDisabled(marksData)

\* C28: the clusters are non-empty runs of the classified marks, in order
\* (their concatenation is the mark sequence); a mark starts a cluster iff
\* its squared distance to the mark before it is at least the squared
\* threshold (the first mark always starts one); no mark, no cluster.
C28_ClustersPartitionMarks ==
  Clustered =>
    LET ms == classifiedMarks(marksData)
    IN  /\ \A k \in 1..Len(clusters) : Len(clusters[k].marks) >= 1
        /\ Concatenated(clusters, 1) = ms
        /\ \A i \in 2..Len(ms) :
             StartsCluster(clusters, ms, i) <=> Apart(ms[i - 1], ms[i])
        /\ Len(ms) = 0 => clusters = <<>>

\* C28 happens: three marks, the second at exactly the threshold from the
\* first and less than the threshold from the third: two clusters
C28_Witness ==
  /\ Clustered
  /\ Len(marksData) = 3
  /\ marksData[1].coordinates = Crossing
  /\ marksData[2].coordinates = Stand2
  /\ marksData[3].coordinates = Stand3
  /\ Len(clusters) = 2
  /\ Len(clusters[2].marks) = 2

\* C28 happens: features, none of them recognised: no cluster
C28_WitnessEmpty ==
  /\ Clustered
  /\ Len(marksData) = 2
  /\ classifiedMarks(marksData) = <<>>
  /\ clusters = <<>>

\* marks m and n are within the clustering threshold of each other
Within(m, n) == ~Apart(m, n)

\* marks m and n are no farther apart than the clustering threshold
WithinOrAt(m, n) ==
  RLe(sqDist(<<m.lng, m.lat>>, <<n.lng, n.lat>>),
      RMul(CLUSTER_THRESHOLD, CLUSTER_THRESHOLD))

\* C29 as stated: within every cluster, every two member marks, neighbours
\* or not, are no farther apart than the clustering threshold.
C29_AllPairsWithin ==
  Clustered =>
    \A k \in 1..Len(clusters) :
      \A a, b \in 1..Len(clusters[k].marks) :
        WithinOrAt(clusters[k].marks[a], clusters[k].marks[b])

\* C29, amended: within every cluster, every two neighbouring member marks
\* are within the clustering threshold of each other, and neighbouring
\* members are neighbours in the mark sequence.
C29_NeighboursWithin ==
  Clustered =>
    \A k \in 1..Len(clusters) :
      \A a \in 1..(Len(clusters[k].marks) - 1) :
        /\ Within(clusters[k].marks[a], clusters[k].marks[a + 1])
        /\ \E i \in 1..(Len(classifiedMarks(marksData)) - 1) :
             /\ classifiedMarks(marksData)[i] = clusters[k].marks[a]
             /\ classifiedMarks(marksData)[i + 1] = clusters[k].marks[a + 1]

\* C29 happens: the three stands of one station form one cluster, the first
\* and the last 0.0006 apart
C29_Witness ==
  /\ Clustered
  /\ Len(clusters) = 1
  /\ Len(clusters[1].marks) = 3
  /\ ~WithinOrAt(clusters[1].marks[1], clusters[1].marks[3])

\* the feature lists that hold the features of fs in another order
Reordered(fs) ==
  {[i \in 1..Len(fs) |-> fs[p[i]]] :
     p \in {q \in [1..Len(fs) -> 1..Len(fs)] :
              \A i, j \in 1..Len(fs) : q[i] = q[j] => i = j}}

\* the clusters cs as groups of marks, whatever their order and the place
\* of a mark in the feature list
Groups(cs) ==
  {{[name |-> cs[k].marks[m].name, lng |-> cs[k].marks[m].lng,
     lat |-> cs[k].marks[m].lat] : m \in 1..Len(cs[k].marks)} :
     k \in 1..Len(cs)}

\* C30: the clusters depend only on the marks, not on their order in the
\* feature list: every permutation of the feature list yields the same
\* groups of marks.
C30_OrderIndependent ==
  Clustered =>
    \A fs \in Reordered(marksData) :
      Groups(buildClusters(fs)) = Groups(clusters)

\* the same, for the feature lists that differ only in the places of the
\* unrecognised features
C30_SameMarkOrder ==
  Clustered =>
    \A fs \in Reordered(marksData) :
      [i \in 1..Len(classifiedMarks(fs)) |-> classifiedMarks(fs)[i].name]
        = [i \in 1..Len(classifiedMarks(marksData)) |->
             classifiedMarks(marksData)[i].name]
      /\ [i \in 1..Len(classifiedMarks(fs)) |->
            <<classifiedMarks(fs)[i].lng, classifiedMarks(fs)[i].lat>>]
           = [i \in 1..Len(classifiedMarks(marksData)) |->
                <<classifiedMarks(marksData)[i].lng, classifiedMarks(marksData)[i].lat>>]
      => Groups(buildClusters(fs)) = Groups(clusters)

\* the sample interval coordAtPhase reads at phase p
SampleT(p) == RMul(Clamp01(p), R(NUM_SAMPLES))

\* C31: coordAtPhase reads sample indices within 0..NUM_SAMPLES only; at
\* phase k / NUM_SAMPLES (0 and 1 included, phases outside [0, 1] clamped) it
\* returns sample k, and otherwise the linear interpolation of the two
\* samples around the phase.  A frame 5000 ms after the clock's start, with
\* duration 10000 and speed 1, computes phase 0.5 and shows the head at
\* sample 500.
C31_SamplerInterpolates ==
  /\ log.op \in {"sample", "sampleFrame"} =>
       LET t == SampleT(log.phase)
           k == RFloor(t)
       IN  /\ sampleIndex(t) \in 0..NUM_SAMPLES
           /\ sampleIndex(t) + 1 \in 0..NUM_SAMPLES
           /\ display # None
           /\ display[1].head =
                IF t = R(k) THEN sampledCoords(lineFeature, k)
                ELSE interpolate(sampledCoords(lineFeature, k),
                                 sampledCoords(lineFeature, k + 1),
                                 RSub(t, R(k)))
  /\ (log.op = "sampleFrame" /\ log.duration = 10000 /\ log.elapsed = 5000
        /\ speed = R(1))
       => /\ log.phase = Q(1, 2)
          /\ display[1].head = sampledCoords(lineFeature, NUM_SAMPLES \div 2)

\* C31 happens: the frame 5000 ms after the start of a 10000 ms route, at
\* speed 1, on the route that crosses itself
C31_Witness ==
  /\ log.op = "sampleFrame"
  /\ log.duration = 10000 /\ log.elapsed = 5000
  /\ speed = R(1)
  /\ lineFeature = CrossRoute
  /\ display = Some([head |-> Pt(4, 2), gradient |-> Q(1, 2)])

\* C31 happens: phase 1 was displayed, read from samples 999 and 1000
C31_WitnessEnd ==
  /\ log.op = "sample"
  /\ log.phase = R(1)
  /\ lineFeature = LoopRoute
  /\ display # None /\ display[1].head = Pt(1, 1)

\* C31 happens: a phase between two samples was displayed
C31_WitnessBetween ==
  /\ log.op = "sample"
  /\ log.phase = Q(1, 3)
  /\ lineFeature = MainRoute
  /\ display # None /\ display[1].head = <<Q(8, 3000), R(0)>>

\* C32: a camera update snaps (the pose is set to the ideal pose) exactly
\* when it is the first camera update since a start, a resume, a seek or an
\* auto-restart, the update made by the seek itself included; every other
\* camera update is a lerp from the previous pose.
C32_FirstUpdateSnaps ==
  [][log'.camera # "none"
       => (log'.camera = "snap"
             <=> (log.fresh \/ log'.op \in CameraResets))]_vars

\* C33: once setup has installed the control closures, the controller's
\* paused flag agrees with the store, isPaused = ~store.isPlaying, also when
\* store.isPlaying was toggled before setup ran (watcher callbacks run within
\* the step of the write, so none is pending in any state).
C33_PausedAgreesWithStore ==
  controls = "set" => (isPaused <=> ~isPlaying)

\* the same, for the runs in which the store is not toggled before setup
C33_AgreesWhenToggledAfterSetup ==
  [][(controls = "set" /\ (isPaused <=> ~isPlaying))
       => (isPaused' <=> ~isPlaying')]_vars

\* C34: the progress watcher never calls _seekToPhase for a write the
\* controller made itself: when it runs for the write of a frame or of the
\* restart timer, the value written is within SEEK_EPSILON of the internal
\* phase.
C34_OwnWritesNeverSeek ==
  /\ [](log.op \in {"frame", "timer"} => ~log.selfSeek)
  /\ [][(log'.op \in {"frame", "timer"} /\ progress' # progress)
          => /\ RLe(RAbs(RSub(progress', internalPhase')), SEEK_EPSILON)
             /\ log'.wrote = Some(progress')]_vars

\* C34 happens: a frame past the middle of the route, at a speed other than
\* 1, wrote the store and the watcher ran
C34_Witness ==
  /\ FrameRan
  /\ log.wrote = Some(progress)
  /\ RLt(Q(1, 2), progress) /\ RLt(progress, R(1))
  /\ speed # R(1)

\* C34 happens: the restart timer reset the store from 1 to 0
C34_WitnessRestart ==
  /\ log.op = "timer"
  /\ log.wrote = Some(R(0))
  /\ progress = R(0)
  /\ internalPhase = R(0)

\* C35: in every reachable state of the geofence engine the popup is visible
\* exactly when activeClusterIdx >= 0, and a visible popup is anchored at the
\* centre of clusters[activeClusterIdx]; the popup layer holds one popup, so
\* at most one is visible.
C35_PopupIffActiveCluster ==
  /\ popup.isVisible <=> activeClusterIdx >= 0
  /\ popup.isVisible
       => /\ activeClusterIdx < Len(clusters)
          /\ popup.currentKey
               = Some(popupKey(clusters[activeClusterIdx + 1].center))

\* C35 happens: the popup of a cluster after the first is visible
C35_Witness ==
  /\ popup.isVisible
  /\ activeClusterIdx >= 1
  /\ log.op = "update"

\* C36: whenever the controller is paused no popup is visible, whatever
\* play, pause, seek and setSpeed calls, frames, 'moveend' events and timer
\* firings came before.
C36_PausedShowsNoPopup ==
  /\ isPaused => ~popup.isVisible /\ activeClusterIdx = -1
  /\ [][(popup.isVisible /\ log'.op = "pause")
          => isPaused' /\ ~popup'.isVisible]_vars

\* C36 happens: the controller is paused after it started, with the head
\* inside the region of a cluster
C36_Witness ==
  /\ isPaused /\ hasStarted
  /\ display # None
  /\ \E k \in 1..Len(clusters) : InRegion(display[1].head, clusters[k])
  /\ ~popup.isVisible

\* the sequence fractions of the clusters increase strictly in cluster order
SeqFractionsIncrease ==
  \A k \in 1..(Len(clusters) - 1) :
    RLt(clusters[k].seqFraction, clusters[k + 1].seqFraction)

\* C37: for every feature list, lists with unrecognised marks included, every
\* cluster's seqFraction lies in [0, 1] and seqFraction increases strictly in
\* cluster order (so that recalibration at phase p finds the first cluster
\* with seqFraction >= p - 0.02, or none).
C37_SeqFractionInUnit ==
  (log.op = "useMarkers" /\ thrown = None)
    => /\ \A k \in 1..Len(clusters) : InUnit(clusters[k].seqFraction)
       /\ SeqFractionsIncrease

\* the part of C37 that holds: the order of the sequence fractions
C37_SeqFractionOrdered ==
  (log.op = "useMarkers" /\ thrown = None) => SeqFractionsIncrease

\* the store holds the data of route r, loaded without error
HoldsRoute(d, r) ==
  /\ d.pathData = Some(r)
  /\ d.marksData = Some(r)
  /\ d.elevationProfile = (IF ROUTE_MAP[r].legacy THEN None ELSE Some(r))
  /\ d.duration = ROUTE_MAP[r].duration
  /\ d.routeConfig = Some(ROUTE_MAP[r])

\* all calls have settled without an error and the store holds the data of
\* the route requested last
SettledHoldsLatest ==
  (loads.pending = {} /\ routeData.routeId # None /\ routeData.error = None)
    => HoldsRoute(routeData, routeData.routeId[1])

\* loading is true while a call is in flight
LoadingWhileInFlight == loads.pending # {} => routeData.loading

\* C38: however loadRoute calls overlap, once all of them have settled (and
\* no error is reported) pathData, marksData, elevationProfile, duration and
\* routeConfig are those of the route requested last, and loading is true
\* while a call is in flight.
C38_LatestRouteWins == SettledHoldsLatest /\ LoadingWhileInFlight

\* the distance between a profile point and the target
Off(point, distanceKm) ==
  IF point.distance_km_cum < distanceKm
  THEN distanceKm - point.distance_km_cum
  ELSE point.distance_km_cum - distanceKm

\* the search returned: null for an empty profile, else a point of the
\* profile
SearchReturned == stats.pc = "done" /\ log.op \in {"find", "return"}

\* the parts of C39 that hold: an empty profile gives null, the result is a
\* point of the profile (the first one at or past the target, or the last
\* point), and every iteration narrows [lo, hi], so the loop terminates
C39_SearchTerminates ==
  /\ [](SearchReturned
          => IF stats.profile = <<>> THEN stats.point = None
             ELSE /\ stats.point # None
                  /\ \E i \in 1..Len(stats.profile) :
                       /\ stats.point[1] = stats.profile[i]
                       /\ \A j \in 1..(i - 1) :
                            stats.profile[j].distance_km_cum < stats.distanceKm
                       /\ (i < Len(stats.profile)
                             => stats.distanceKm <= stats.profile[i].distance_km_cum))
  /\ [][log'.op = "probe"
          => /\ stats'.hi - stats'.lo < stats.hi - stats.lo
             /\ 0 <= stats'.lo /\ stats'.lo <= stats'.hi
             /\ stats'.hi < Len(stats.profile)]_vars

\* C39: for a non-empty profile sorted by cumulative distance and any target
\* distance, findNearestPoint returns the point whose cumulative distance is
\* nearest to the target; for an empty profile it returns null.
C39_ReturnsNearest ==
  SearchReturned
    => IF stats.profile = <<>> THEN stats.point = None
       ELSE /\ stats.point # None
            /\ \A i \in 1..Len(stats.profile) :
                 Off(stats.point[1], stats.distanceKm)
                   <= Off(stats.profile[i], stats.distanceKm)

====
